---- MODULE Spec2Model ----
(***************************************************************************)
(* Model of src/bot.py (class TelegramBot): the in-memory tables of the    *)
(* bot, the rate limiter (check_spam / is_temp_blocked), the membership    *)
(* gate (check_membership / mark_user_joined_channel) and the three gated  *)
(* entry points that deliver a file group (/start <code>, the redownload_  *)
(* button and the check_ button), together with the administrator flows    *)
(* that create what the gate reads (channels, file groups, administrators).*)
(*                                                                         *)
(* The application is built with Application.builder() and no              *)
(* concurrent_updates, so the library runs one handler to completion       *)
(* before it takes the next update: every handler is one atomic action.    *)
(* The results of the remote calls a handler makes (get_chat_member,       *)
(* send_photo, send_video) are inputs of the action, drawn with \E.        *)
(*                                                                         *)
(* Time is counted in ticks, TicksPerSecond of them in one second, so that *)
(* datetime.now() differences below one second and the truncation done by  *)
(* int() are visible.                                                      *)
(***************************************************************************)
EXTENDS Integers, Sequences, FiniteSets, TLC

\* ------------------------------------------------------------------------
\* Program constants
\* ------------------------------------------------------------------------

\* MAIN_ADMIN_ID = int(os.environ.get('MAIN_ADMIN_ID', '0'))
MAIN_ADMIN_ID == 0

\* check_spam: "if time_diff < 2"
SPAM_WINDOW_SECONDS == 2

\* check_spam: "timedelta(seconds=10)" and "return True, 10"
SPAM_BLOCK_SECONDS == 10

\* check_spam: "if request_count >= 5"
SPAM_BURST == 5

\* handle_text, delete_time: "if delete_seconds < 5 or delete_seconds > 30"
MIN_DELETE_SECONDS == 5
MAX_DELETE_SECONDS == 30

\* ------------------------------------------------------------------------
\* Bounds of the model
\* ------------------------------------------------------------------------

\* Resolution of the clock: ticks in one second.
TicksPerSecond == 2

\* The clock stops advancing after this many seconds.
MaxSeconds == 13

\* The same for the clock of the specification of the gate.
GateSeconds == 4

\* Longest list of files an administrator collects before finishing.
MaxFiles == 2

\* ------------------------------------------------------------------------
\* Input sets
\* ------------------------------------------------------------------------

\* Telegram user ids: the main administrator and two other users.
Users == {0, 1, 2}

\* Values secrets.token_urlsafe(8) returns in the model.
Codes == {"c1"}

\* Texts an administrator sends as a channel link, with what
\* extract_channel_info makes of each.
ChannelTexts == {"@chA", "https://t.me/+inv", "junk"}

\* member.status values of get_chat_member, and "error" for a raised exception.
ProbeOutcomes == {"member", "left", "error"}

NoBlock == -1

WindowTicks == SPAM_WINDOW_SECONDS * TicksPerSecond
BlockTicks == SPAM_BLOCK_SECONDS * TicksPerSecond
MaxTime == MaxSeconds * TicksPerSecond

\* int(x) of a non-negative duration of t ticks, in seconds
IntSeconds(t) == t \div TicksPerSecond

\* ------------------------------------------------------------------------
\* Generic helpers on dictionaries (functions on a finite domain)
\* ------------------------------------------------------------------------

EmptyDict == [x \in {} |-> 0]

Put(d, k, v) == [x \in (DOMAIN d) \cup {k} |-> IF x = k THEN v ELSE d[x]]

Range(s) == {s[i] : i \in DOMAIN s}

VARIABLES
    now,                       \* datetime.now(timezone.utc), in ticks
    admins,                    \* self.admins (its keys)
    users,                     \* self.users: user_id -> [is_blocked]
    files,                     \* self.files: unique_code -> file group
    mandatory_channels,        \* self.mandatory_channels, in insertion order
    spam_control,              \* self.spam_control: user_id -> spam_info
    user_channel_memberships,  \* self.user_channel_memberships
    user_data,                 \* context.user_data of each user
    reply,                     \* what the last gated request did
    probed,                    \* <<user, key>> a probe has reported as a member
    shown,                     \* <<user, key>> presented with a join link
    notice,                    \* what the bot last answered in the dialogues
                               \* that store and expire file groups
    published,                 \* unique_code -> file group as it was stored
    discarded,                 \* the files of the lists cancel_upload threw away
    tasks,                     \* the cleanup tasks that have started, each with
                               \* the calls it has made
    user_message_map,          \* self.user_message_map: message_id -> user_id
    outbox,                    \* the messages the last relay, reply, broadcast
                               \* or administrator message step sent
    sweeps                     \* the broadcast tasks, each with its loop state

vars == <<now, admins, users, files, mandatory_channels, spam_control,
          user_channel_memberships, user_data, reply, probed, shown, notice,
          published, discarded, tasks, user_message_map, outbox, sweeps>>

\* ------------------------------------------------------------------------
\* is_admin
\* ------------------------------------------------------------------------

is_admin(user_id) == user_id \in admins

\* ------------------------------------------------------------------------
\* RateLimiter: check_spam and is_temp_blocked
\* ------------------------------------------------------------------------

\* spam_info.get('blocked_until'): the key is absent or None when no block is set
SpamInfo(count, last, until) ==
    [request_count |-> count, last_request |-> last, blocked_until |-> until]

\* check_spam with the block set one request late ("> 5" for ">= 5")
check_spam_late(sc, user_id, t) ==
    IF user_id \in DOMAIN sc
    THEN LET spam_info == sc[user_id]
             time_diff == t - spam_info.last_request
         IN IF time_diff < WindowTicks
            THEN LET request_count == spam_info.request_count + 1
                     sc2 == Put(sc, user_id,
                                SpamInfo(request_count, t,
                                         IF request_count > SPAM_BURST
                                         THEN t + BlockTicks ELSE NoBlock))
                 IN IF request_count > SPAM_BURST
                    THEN [is_spam |-> TRUE, wait_time |-> SPAM_BLOCK_SECONDS, sc |-> sc2]
                    ELSE [is_spam |-> TRUE,
                          wait_time |-> IntSeconds(WindowTicks - time_diff),
                          sc |-> sc2]
            ELSE [is_spam |-> FALSE, wait_time |-> 0,
                  sc |-> Put(sc, user_id, SpamInfo(1, t, NoBlock))]
    ELSE [is_spam |-> FALSE, wait_time |-> 0,
          sc |-> Put(sc, user_id, SpamInfo(1, t, NoBlock))]

\* check_spam(user_id) at time t on table sc: the returned pair and the table
check_spam(sc, user_id, t) ==
    IF user_id \in DOMAIN sc
    THEN LET spam_info == sc[user_id]
             time_diff == t - spam_info.last_request
         IN IF time_diff < WindowTicks
            THEN LET request_count == spam_info.request_count + 1
                     sc2 == Put(sc, user_id,
                                SpamInfo(request_count, t,
                                         IF request_count >= SPAM_BURST
                                         THEN t + BlockTicks ELSE NoBlock))
                 IN IF request_count >= SPAM_BURST
                    THEN [is_spam |-> TRUE, wait_time |-> SPAM_BLOCK_SECONDS, sc |-> sc2]
                    ELSE [is_spam |-> TRUE,
                          wait_time |-> IntSeconds(WindowTicks - time_diff),
                          sc |-> sc2]
            ELSE [is_spam |-> FALSE, wait_time |-> 0,
                  sc |-> Put(sc, user_id, SpamInfo(1, t, NoBlock))]
    ELSE [is_spam |-> FALSE, wait_time |-> 0,
          sc |-> Put(sc, user_id, SpamInfo(1, t, NoBlock))]

\* is_temp_blocked that restarts the block on every query made during it
is_temp_blocked_extends(sc, user_id, t) ==
    IF user_id \in DOMAIN sc /\ sc[user_id].blocked_until # NoBlock
    THEN LET blocked_until == sc[user_id].blocked_until
         IN IF t < blocked_until
            THEN [is_blocked |-> TRUE,
                  remaining |-> IntSeconds(blocked_until - t),
                  sc |-> Put(sc, user_id,
                             SpamInfo(sc[user_id].request_count,
                                      sc[user_id].last_request, t + BlockTicks))]
            ELSE [is_blocked |-> FALSE, remaining |-> 0,
                  sc |-> Put(sc, user_id,
                             SpamInfo(0, sc[user_id].last_request, NoBlock))]
    ELSE [is_blocked |-> FALSE, remaining |-> 0, sc |-> sc]

\* is_temp_blocked that removes an expired block and keeps the counter
is_temp_blocked_keeps_count(sc, user_id, t) ==
    IF user_id \in DOMAIN sc /\ sc[user_id].blocked_until # NoBlock
    THEN LET blocked_until == sc[user_id].blocked_until
         IN IF t < blocked_until
            THEN [is_blocked |-> TRUE,
                  remaining |-> IntSeconds(blocked_until - t), sc |-> sc]
            ELSE [is_blocked |-> FALSE, remaining |-> 0,
                  sc |-> Put(sc, user_id,
                             SpamInfo(sc[user_id].request_count,
                                      sc[user_id].last_request, NoBlock))]
    ELSE [is_blocked |-> FALSE, remaining |-> 0, sc |-> sc]

\* is_temp_blocked(user_id) at time t on table sc
is_temp_blocked(sc, user_id, t) ==
    IF user_id \in DOMAIN sc /\ sc[user_id].blocked_until # NoBlock
    THEN LET blocked_until == sc[user_id].blocked_until
         IN IF t < blocked_until
            THEN [is_blocked |-> TRUE,
                  remaining |-> IntSeconds(blocked_until - t), sc |-> sc]
            ELSE [is_blocked |-> FALSE, remaining |-> 0,
                  sc |-> Put(sc, user_id,
                             SpamInfo(0, sc[user_id].last_request, NoBlock))]
    ELSE [is_blocked |-> FALSE, remaining |-> 0, sc |-> sc]

\* The limiter calls in the other order: check_spam first, then is_temp_blocked
SpamGate_attempt_first(user_id) ==
    IF is_admin(user_id)
    THEN [verdict |-> "pass", wait |-> 0, sc |-> spam_control, calls |-> <<>>]
    ELSE LET s == check_spam(spam_control, user_id, now)
             b == is_temp_blocked(s.sc, user_id, now)
         IN IF s.is_spam
            THEN [verdict |-> "RateLimited", wait |-> s.wait_time, sc |-> s.sc,
                  calls |-> <<"check_spam">>]
            ELSE [verdict |-> IF b.is_blocked THEN "Blocked" ELSE "pass",
                  wait |-> b.remaining, sc |-> b.sc,
                  calls |-> <<"check_spam", "is_temp_blocked">>]

\* The limiter applied to every user, administrators included
SpamGate_everyone(user_id) ==
    LET b == is_temp_blocked(spam_control, user_id, now)
    IN IF b.is_blocked
       THEN [verdict |-> "Blocked", wait |-> b.remaining, sc |-> b.sc,
             calls |-> <<"is_temp_blocked">>]
       ELSE LET s == check_spam(b.sc, user_id, now)
            IN [verdict |-> IF s.is_spam THEN "RateLimited" ELSE "pass",
                wait |-> s.wait_time, sc |-> s.sc,
                calls |-> <<"is_temp_blocked", "check_spam">>]

\* The block of code the three gated entry points start with:
\*   if not self.is_admin(user.id):
\*       is_blocked, remaining = self.is_temp_blocked(user.id); if is_blocked: return
\*       is_spam, wait_time = self.check_spam(user.id);        if is_spam: return
\* verdict is "pass", "Blocked" or "RateLimited"; calls lists the limiter
\* functions that were called, in order.
SpamGate(user_id) ==
    IF is_admin(user_id)
    THEN [verdict |-> "pass", wait |-> 0, sc |-> spam_control, calls |-> <<>>]
    ELSE LET b == is_temp_blocked(spam_control, user_id, now)
         IN IF b.is_blocked
            THEN [verdict |-> "Blocked", wait |-> b.remaining, sc |-> b.sc,
                  calls |-> <<"is_temp_blocked">>]
            ELSE LET s == check_spam(b.sc, user_id, now)
                 IN [verdict |-> IF s.is_spam THEN "RateLimited" ELSE "pass",
                     wait |-> s.wait_time, sc |-> s.sc,
                     calls |-> <<"is_temp_blocked", "check_spam">>]

\* ------------------------------------------------------------------------
\* MembershipGate: check_membership and mark_user_joined_channel
\* ------------------------------------------------------------------------

\* Statuses check_membership accepts as membership
MemberStatuses == {"member", "administrator", "creator"}

\* self.user_channel_memberships[user_id].get(channel_key)
MemberGet(row, channel_key) == channel_key \in DOMAIN row /\ row[channel_key]

\* The re-check of a satisfied record that validates every channel again, putting
\* a channel without can_auto_verify back on the list
Recheck_revalidates_trust(channel_info, row, pr, acc) ==
    LET channel_key == channel_info.key
    IN IF channel_info.can_auto_verify
       THEN IF pr[channel_key] = "error"
            THEN [row |-> row, not_joined |-> acc]
            ELSE IF pr[channel_key] \notin MemberStatuses
                 THEN [row |-> Put(row, channel_key, FALSE),
                       not_joined |-> Append(acc, channel_info)]
                 ELSE [row |-> row, not_joined |-> acc]
       ELSE [row |-> Put(row, channel_key, FALSE),
             not_joined |-> Append(acc, channel_info)]

\* The re-check of a satisfied record that takes a failed probe for "not a member"
Recheck_error_resets(channel_info, row, pr, acc) ==
    LET channel_key == channel_info.key
    IN IF channel_info.can_auto_verify
       THEN IF pr[channel_key] \notin MemberStatuses
            THEN [row |-> Put(row, channel_key, FALSE),
                  not_joined |-> Append(acc, channel_info)]
            ELSE [row |-> row, not_joined |-> acc]
       ELSE [row |-> row, not_joined |-> acc]

\* One iteration of "for channel_key, channel_info in self.mandatory_channels.items()"
\* when the record of the user for the channel is already satisfied: a channel
\* with can_auto_verify is probed again, the others are skipped. row is
\* self.user_channel_memberships[user_id], pr[channel_key] the outcome of
\* get_chat_member for that channel, acc the list not_joined so far.
Recheck(channel_info, row, pr, acc) ==
    LET channel_key == channel_info.key
    IN IF channel_info.can_auto_verify
       THEN IF pr[channel_key] = "error"
            THEN [row |-> row, not_joined |-> acc]
            ELSE IF pr[channel_key] \notin MemberStatuses
                 THEN [row |-> Put(row, channel_key, FALSE),
                       not_joined |-> Append(acc, channel_info)]
                 ELSE [row |-> row, not_joined |-> acc]
       ELSE [row |-> row, not_joined |-> acc]

\* The same iteration when the record is not satisfied
FirstCheck(channel_info, row, pr, acc) ==
    LET channel_key == channel_info.key
    IN IF channel_info.can_auto_verify
       THEN IF pr[channel_key] = "error"
            THEN [row |-> row, not_joined |-> Append(acc, channel_info)]
            ELSE IF pr[channel_key] \in MemberStatuses
                 THEN [row |-> Put(row, channel_key, TRUE), not_joined |-> acc]
                 ELSE [row |-> Put(row, channel_key, FALSE),
                       not_joined |-> Append(acc, channel_info)]
       ELSE [row |-> row, not_joined |-> Append(acc, channel_info)]

CheckChannel(channel_info, row, pr, acc) ==
    IF MemberGet(row, channel_info.key)
    THEN Recheck(channel_info, row, pr, acc)
    ELSE FirstCheck(channel_info, row, pr, acc)

RECURSIVE CheckLoop(_, _, _, _, _)
CheckLoop(channels, i, row, pr, acc) ==
    IF i > Len(channels)
    THEN [row |-> row, not_joined |-> acc]
    ELSE LET step == CheckChannel(channels[i], row, pr, acc)
         IN CheckLoop(channels, i + 1, step.row, pr, step.not_joined)

\* An evaluation that takes every requirement as met, whatever the records and
\* the probes say
check_membership_open(ucm, user_id, pr) ==
    [is_member |-> TRUE, not_joined |-> <<>>, ucm |-> ucm]

\* check_membership(user_id) on the table ucm with probe outcomes pr: the
\* returned pair (is_member, not_joined) and the table afterwards
check_membership(ucm, user_id, pr) ==
    IF mandatory_channels = <<>>
    THEN [is_member |-> TRUE, not_joined |-> <<>>, ucm |-> ucm]
    ELSE LET row0 == IF user_id \in DOMAIN ucm THEN ucm[user_id] ELSE EmptyDict
             r == CheckLoop(mandatory_channels, 1, row0, pr, <<>>)
         IN [is_member |-> Len(r.not_joined) = 0, not_joined |-> r.not_joined,
             ucm |-> Put(ucm, user_id, r.row)]

\* mark_user_joined_channel that loses the write
mark_user_joined_channel_lost(ucm, user_id, channel_key) == ucm

\* mark_user_joined_channel(user_id, channel_key)
mark_user_joined_channel(ucm, user_id, channel_key) ==
    Put(ucm, user_id,
        Put(IF user_id \in DOMAIN ucm THEN ucm[user_id] ELSE EmptyDict,
            channel_key, TRUE))

\* Channels of mandatory_channels, by key
ChannelKeys == {mandatory_channels[i].key : i \in DOMAIN mandatory_channels}

AutoKeys == {c.key : c \in {x \in Range(mandatory_channels) : x.can_auto_verify}}

TrustKeys == ChannelKeys \ AutoKeys

\* The get_chat_member outcomes one evaluation can see: every channel with
\* can_auto_verify is probed once, the others never
ProbeInputs == [AutoKeys -> ProbeOutcomes]

\* The <<user, key>> pairs a successful probe of this evaluation reports as member
ProbedNow(user_id, pr) ==
    {<<user_id, k>> : k \in {x \in DOMAIN pr : pr[x] \in MemberStatuses}}

\* The <<user, key>> pairs of a list of channels
SeqPairs(user_id, channels) == {<<user_id, channels[i].key>> : i \in DOMAIN channels}

\* ------------------------------------------------------------------------
\* What a gated request did (observation of the handler's run)
\* ------------------------------------------------------------------------

\* The text the handler shows after send_files_to_user has returned, which it
\* does whether the sends succeeded or not: none in handle_file_access, the
\* answer of the redownload_ branch, the edited message of the check_ branch
Answer(kind, outcome) ==
    IF outcome \notin {"Delivered", "DeliveryError"} THEN <<>>
    ELSE IF kind = "redownload" THEN <<"Resending">>
    ELSE IF kind = "check" THEN <<"FileSent">>
    ELSE <<>>

\* What send_files_to_user does when it is not called
NoDelivery ==
    [outcome |-> "none", sent |-> 0, messages |-> <<>>, scheduled |-> <<>>,
     recorded |-> <<>>, told |-> <<>>]

\* kind is the entry point ("start", "redownload", "check"); outcome is one of
\* "UserBlocked", "Blocked", "RateLimited", "CodeNotFound", "MembershipRequired",
\* "Delivered", "DeliveryError"; wait is the number of seconds shown with Blocked
\* and RateLimited; calls lists the limiter functions called, in order; evaluated
\* tells whether check_membership ran, pr gives the outcomes of its probes and
\* not_joined the list it returned; sent is the number of media messages sent,
\* messages those messages, scheduled the coroutines given to
\* asyncio.create_task, recorded the records appended to self.downloads and
\* told the texts about the delivery shown to the requester, in order.
Reply(kind, user_id, code, outcome, gate, evaluated, pr, not_joined, d) ==
    [kind |-> kind, user |-> user_id, code |-> code, outcome |-> outcome,
     wait |-> gate.wait, calls |-> gate.calls, evaluated |-> evaluated, pr |-> pr,
     not_joined |-> not_joined, sent |-> d.sent, messages |-> d.messages,
     scheduled |-> d.scheduled, recorded |-> d.recorded,
     told |-> d.told \o Answer(kind, outcome)]

NoReply ==
    [kind |-> "none", user |-> MAIN_ADMIN_ID, code |-> "", outcome |-> "none",
     wait |-> 0, calls |-> <<>>, evaluated |-> FALSE, pr |-> EmptyDict,
     not_joined |-> <<>>, sent |-> 0, messages |-> <<>>, scheduled |-> <<>>,
     recorded |-> <<>>, told |-> <<>>]

NoGate == [verdict |-> "pass", wait |-> 0, sc |-> spam_control, calls |-> <<>>]

\* ------------------------------------------------------------------------
\* DeliveryScheduler: the sends of send_files_to_user
\* ------------------------------------------------------------------------

\* caption= of the send of the idx-th file of a group (idx from 1): the caption
\* of the group and the notice of the timer on the first file of a group that has
\* a caption, None on its later files, and the notice alone on every file of a
\* group without caption
NoCaption == [text |-> "None", timer |-> 0]

\* The same with the caption of the group on every file
Caption_every(idx, caption_text, delete_seconds) ==
    [text |-> caption_text, timer |-> delete_seconds]

Caption(idx, caption_text, delete_seconds) ==
    IF idx = 1 /\ caption_text # "None"
    THEN [text |-> caption_text, timer |-> delete_seconds]
    ELSE IF idx = 1 \/ caption_text = "None"
    THEN [text |-> "None", timer |-> delete_seconds]
    ELSE NoCaption

\* The messages of the chat that the cleanup tasks started so far were given:
\* those of the first k tasks
RECURSIVE Posted(_, _)
Posted(chat_id, k) ==
    IF k = 0 THEN 0
    ELSE Posted(chat_id, k - 1)
         + (IF tasks[k].args.chat_id = chat_id
            THEN Len(tasks[k].args.message_ids) ELSE 0)

\* sent_message of the idx-th send_photo or send_video of one delivery.
\* Telegram numbers the messages of a chat upwards: its message_id is written
\* as the position of the message in the delivery, after the messages of the
\* deliveries whose cleanup tasks have started
Message(user_id, file_group, idx) ==
    [chat_id |-> user_id, message_id |-> Posted(user_id, Len(tasks)) + idx,
     file |-> file_group.files[idx],
     caption |-> Caption(idx, file_group.caption, file_group.delete_seconds)]

\* The coroutine handed to asyncio.create_task
CleanupTask(user_id, sent_message_ids, file_group, file_code) ==
    [chat_id |-> user_id, message_ids |-> sent_message_ids,
     delay_seconds |-> file_group.delete_seconds, file_code |-> file_code]

\* send_files_to_user(user_id, file_group, file_code) when the first `ok` sends
\* succeed: ok = number of files is a full delivery; a failing send raises, which
\* ends the loop and skips create_task and self.downloads.append. scheduled is
\* the call of asyncio.create_task, recorded what is appended to self.downloads,
\* told the text of the except branch.
send_files_to_user(user_id, file_code, ok) ==
    LET file_group == files[file_code]
        n == Len(file_group.files)
        messages == [idx \in 1..ok |-> Message(user_id, file_group, idx)]
        sent_message_ids == [idx \in 1..ok |-> messages[idx].message_id]
    IN IF ok = n
       THEN [outcome |-> "Delivered", sent |-> n, messages |-> messages,
             scheduled |-> IF sent_message_ids # <<>>
                           THEN <<CleanupTask(user_id, sent_message_ids,
                                              file_group, file_code)>>
                           ELSE <<>>,
             recorded |-> <<[file_code |-> file_code, user_id |-> user_id]>>,
             told |-> <<>>]
       ELSE [outcome |-> "DeliveryError", sent |-> ok, messages |-> messages,
             scheduled |-> <<>>, recorded |-> <<>>, told |-> <<"DeliveryError">>]

\* The sends of one delivery that can be told apart: how many succeed.
SendInputs(file_code) ==
    IF file_code \in DOMAIN files THEN 0..Len(files[file_code].files) ELSE {0}

\* ------------------------------------------------------------------------
\* AccessController: the three gated entry points
\* ------------------------------------------------------------------------

\* start_command with context.args = [file_code], which runs handle_file_access
handle_file_access(user_id, file_code, pr, ok) ==
    IF user_id \in DOMAIN users /\ users[user_id].is_blocked
    THEN /\ reply' = Reply("start", user_id, file_code, "UserBlocked", NoGate,
                           FALSE, EmptyDict, <<>>, NoDelivery)
         /\ UNCHANGED <<now, admins, users, files, mandatory_channels, spam_control,
                        user_channel_memberships, user_data, probed, shown, notice,
                        published, discarded, tasks, user_message_map, outbox,
                        sweeps>>
    ELSE LET gate == SpamGate(user_id)
             m == check_membership(user_channel_memberships, user_id, pr)
         IN /\ users' = Put(users, user_id, [is_blocked |-> FALSE])
            /\ spam_control' = gate.sc
            /\ UNCHANGED <<now, admins, files, mandatory_channels, user_data,
                           notice, published, discarded, tasks, user_message_map,
                           outbox, sweeps>>
            /\ IF gate.verdict # "pass"
               THEN /\ reply' = Reply("start", user_id, file_code, gate.verdict, gate,
                                      FALSE, EmptyDict, <<>>, NoDelivery)
                    /\ UNCHANGED <<user_channel_memberships, probed, shown>>
               ELSE IF file_code \notin DOMAIN files
               THEN /\ reply' = Reply("start", user_id, file_code, "CodeNotFound", gate,
                                      FALSE, EmptyDict, <<>>, NoDelivery)
                    /\ UNCHANGED <<user_channel_memberships, probed, shown>>
               ELSE IF ~m.is_member
               THEN /\ reply' = Reply("start", user_id, file_code, "MembershipRequired",
                                      gate, TRUE, pr, m.not_joined, NoDelivery)
                    /\ user_channel_memberships' = m.ucm
                    /\ probed' = probed \cup ProbedNow(user_id, pr)
                    /\ shown' = shown \cup SeqPairs(user_id, m.not_joined)
               ELSE LET d == send_files_to_user(user_id, file_code, ok)
                    IN /\ reply' = Reply("start", user_id, file_code, d.outcome, gate,
                                         TRUE, pr, m.not_joined, d)
                       /\ user_channel_memberships' = m.ucm
                       /\ probed' = probed \cup ProbedNow(user_id, pr)
                       /\ UNCHANGED shown

\* button_callback, data = "redownload_<file_code>"
redownload(user_id, file_code, pr, ok) ==
    LET gate == SpamGate(user_id)
        m == check_membership(user_channel_memberships, user_id, pr)
    IN /\ spam_control' = gate.sc
       /\ UNCHANGED <<now, admins, users, files, mandatory_channels, user_data,
                      notice, published, discarded, tasks, user_message_map, outbox,
                      sweeps>>
       /\ IF gate.verdict # "pass"
          THEN /\ reply' = Reply("redownload", user_id, file_code, gate.verdict, gate,
                                 FALSE, EmptyDict, <<>>, NoDelivery)
               /\ UNCHANGED <<user_channel_memberships, probed, shown>>
          ELSE /\ user_channel_memberships' = m.ucm
               /\ probed' = probed \cup ProbedNow(user_id, pr)
               /\ IF ~m.is_member
                  THEN /\ reply' = Reply("redownload", user_id, file_code,
                                         "MembershipRequired", gate, TRUE, pr,
                                         m.not_joined, NoDelivery)
                       /\ shown' = shown \cup SeqPairs(user_id, m.not_joined)
                  ELSE IF file_code \notin DOMAIN files
                  THEN /\ reply' = Reply("redownload", user_id, file_code,
                                         "CodeNotFound", gate, TRUE, pr, m.not_joined,
                                         NoDelivery)
                       /\ UNCHANGED shown
                  ELSE LET d == send_files_to_user(user_id, file_code, ok)
                       IN /\ reply' = Reply("redownload", user_id, file_code, d.outcome,
                                            gate, TRUE, pr, m.not_joined, d)
                          /\ UNCHANGED shown

\* The selection of still_not_joined with the test on can_auto_verify inverted
StillNotJoined_inverted(not_joined) ==
    SelectSeq(not_joined, LAMBDA channel : ~channel.can_auto_verify)

\* The loop of the check_ branch over not_joined_channels: the channels with
\* can_auto_verify go to still_not_joined, the others to trust_channels and to
\* mark_user_joined_channel
StillNotJoined(not_joined) ==
    SelectSeq(not_joined, LAMBDA channel : channel.can_auto_verify)

TrustChannels(not_joined) ==
    SelectSeq(not_joined, LAMBDA channel : ~channel.can_auto_verify)

RECURSIVE MarkAll(_, _, _, _)
MarkAll(ucm, user_id, channels, i) ==
    IF i > Len(channels) THEN ucm
    ELSE MarkAll(mark_user_joined_channel(ucm, user_id, channels[i].key),
                 user_id, channels, i + 1)

\* button_callback, data = "check_<file_code>"
check(user_id, file_code, pr, ok) ==
    LET gate == SpamGate(user_id)
        m == check_membership(user_channel_memberships, user_id, pr)
        still_not_joined == StillNotJoined(m.not_joined)
        trust_channels == TrustChannels(m.not_joined)
    IN /\ spam_control' = gate.sc
       /\ UNCHANGED <<now, admins, users, files, mandatory_channels, user_data,
                      shown, notice, published, discarded, tasks, user_message_map,
                      outbox, sweeps>>
       /\ IF gate.verdict # "pass"
          THEN /\ reply' = Reply("check", user_id, file_code, gate.verdict, gate,
                                 FALSE, EmptyDict, <<>>, NoDelivery)
               /\ UNCHANGED <<user_channel_memberships, probed>>
          ELSE /\ user_channel_memberships' = MarkAll(m.ucm, user_id, trust_channels, 1)
               /\ probed' = probed \cup ProbedNow(user_id, pr)
               /\ IF still_not_joined # <<>>
                  THEN reply' = Reply("check", user_id, file_code, "MembershipRequired",
                                      gate, TRUE, pr, m.not_joined, NoDelivery)
                  ELSE IF file_code \notin DOMAIN files
                  THEN reply' = Reply("check", user_id, file_code, "CodeNotFound",
                                      gate, TRUE, pr, m.not_joined, NoDelivery)
                  ELSE LET d == send_files_to_user(user_id, file_code, ok)
                       IN reply' = Reply("check", user_id, file_code, d.outcome,
                                         gate, TRUE, pr, m.not_joined, d)

\* ------------------------------------------------------------------------
\* context.user_data and the administrator dialogues
\* ------------------------------------------------------------------------

NoChannelInfo == [type |-> "none", key |-> "", can_auto_verify |-> FALSE]

\* context.user_data after clear(): no 'awaiting', no 'temp_files', no 'caption',
\* no 'temp_channel_info'. shared names the codes of self.files whose 'files' is
\* the very list object context.user_data['temp_files'] refers to.
\* target_user_id is NoTarget when the key is absent.
NoTarget == -1

EmptyUserData ==
    [awaiting |-> "none", temp_files |-> <<>>, caption |-> "None",
     temp_channel_info |-> NoChannelInfo, shared |-> {},
     target_user_id |-> NoTarget]

\* extract_channel_info(text) on the texts of ChannelTexts; key is
\* str(channel_info['identifier'])
extract_channel_info(text) ==
    CASE text = "@chA" ->
           [type |-> "username", key |-> "@chA", can_auto_verify |-> TRUE]
      [] text = "https://t.me/+inv" ->
           [type |-> "private_link", key |-> "https://t.me/+inv",
            can_auto_verify |-> FALSE]
      [] OTHER -> NoChannelInfo

\* What check_if_bot_is_admin can return for the channel of a text: get_chat_member
\* takes a chat id or an @username, so the call raises for an invite link and the
\* function returns False; for a username it depends on the bot's rights there.
BotAdminOutcomes(text) ==
    IF extract_channel_info(text).type = "private_link" THEN {FALSE} ELSE BOOLEAN

\* int(text) on the texts the model sends; the other texts raise ValueError
IntTexts == ("0" :> 0) @@ ("1" :> 1) @@ ("2" :> 2) @@ ("4" :> 4) @@ ("5" :> 5)
            @@ ("30" :> 30) @@ ("31" :> 31) @@ ("3" :> 3) @@ ("-3" :> -3)

\* self.mandatory_channels[key] = {...}: an existing key keeps its place
StoreChannel(channels, channel_info) ==
    IF \E i \in DOMAIN channels : channels[i].key = channel_info.key
    THEN [i \in DOMAIN channels |->
             IF channels[i].key = channel_info.key THEN channel_info ELSE channels[i]]
    ELSE Append(channels, channel_info)

\* del self.mandatory_channels[list(self.mandatory_channels.keys())[index]],
\* index counted from 1 here
RemoveAt(channels, index) ==
    [i \in 1..(Len(channels) - 1) |-> IF i < index THEN channels[i] ELSE channels[i + 1]]

\* button_callback, data = "add_channel"
button_add_channel(user_id) ==
    /\ user_data' = IF is_admin(user_id)
                    THEN [user_data EXCEPT ![user_id].awaiting = "channel_link"]
                    ELSE user_data
    /\ UNCHANGED <<now, admins, users, files, mandatory_channels, spam_control,
                   user_channel_memberships, reply, probed, shown, notice,
                   published, discarded, tasks, user_message_map, outbox, sweeps>>

\* handle_text, awaiting = 'channel_link'; is_bot_admin is what
\* check_if_bot_is_admin returns
text_channel_link(user_id, text, is_bot_admin) ==
    LET channel_info == extract_channel_info(text)
    IN /\ user_data[user_id].awaiting = "channel_link"
       /\ user_data' =
            IF ~is_admin(user_id) \/ channel_info = NoChannelInfo
            THEN user_data
            ELSE [user_data EXCEPT
                    ![user_id].temp_channel_info =
                        [channel_info EXCEPT !.can_auto_verify = is_bot_admin],
                    ![user_id].awaiting = "channel_button_text"]
       /\ UNCHANGED <<now, admins, users, files, mandatory_channels, spam_control,
                      user_channel_memberships, reply, probed, shown, notice,
                      published, discarded, tasks, user_message_map, outbox, sweeps>>

\* handle_text, awaiting = 'channel_button_text'
text_channel_button_text(user_id) ==
    LET channel_info == user_data[user_id].temp_channel_info
    IN /\ user_data[user_id].awaiting = "channel_button_text"
       /\ IF ~is_admin(user_id)
          THEN UNCHANGED <<user_data, mandatory_channels>>
          ELSE /\ user_data' = [user_data EXCEPT ![user_id] = EmptyUserData]
               /\ mandatory_channels' =
                    IF channel_info = NoChannelInfo
                    THEN mandatory_channels
                    ELSE StoreChannel(mandatory_channels, channel_info)
       /\ UNCHANGED <<now, admins, users, files, spam_control,
                      user_channel_memberships, reply, probed, shown, notice,
                      published, discarded, tasks, user_message_map, outbox, sweeps>>

\* button_callback, data = "remove_channel"
button_remove_channel(user_id) ==
    /\ user_data' = IF is_admin(user_id) /\ mandatory_channels # <<>>
                    THEN [user_data EXCEPT ![user_id].awaiting = "remove_channel_key"]
                    ELSE user_data
    /\ UNCHANGED <<now, admins, users, files, mandatory_channels, spam_control,
                   user_channel_memberships, reply, probed, shown, notice,
                   published, discarded, tasks, user_message_map, outbox, sweeps>>

\* A removal that forgets the records of the users for the channel it removes
text_remove_channel_key_forgets(user_id, text) ==
    LET removed == IF /\ text \in DOMAIN IntTexts
                      /\ 0 <= IntTexts[text] - 1
                      /\ IntTexts[text] - 1 < Len(mandatory_channels)
                   THEN {mandatory_channels[IntTexts[text]].key} ELSE {}
    IN /\ user_data[user_id].awaiting = "remove_channel_key"
       /\ is_admin(user_id)
       /\ user_data' = [user_data EXCEPT ![user_id] = EmptyUserData]
       /\ mandatory_channels' =
             IF removed # {} THEN RemoveAt(mandatory_channels, IntTexts[text])
             ELSE mandatory_channels
       /\ user_channel_memberships' =
             [u \in DOMAIN user_channel_memberships |->
                 [k \in DOMAIN user_channel_memberships[u] \ removed |->
                     user_channel_memberships[u][k]]]
       /\ UNCHANGED <<now, admins, users, files, spam_control, reply, probed,
                      shown, notice, published, discarded, tasks,
                      user_message_map, outbox, sweeps>>

\* handle_text, awaiting = 'remove_channel_key'
text_remove_channel_key(user_id, text) ==
    /\ user_data[user_id].awaiting = "remove_channel_key"
    /\ IF ~is_admin(user_id)
       THEN UNCHANGED <<user_data, mandatory_channels>>
       ELSE /\ user_data' = [user_data EXCEPT ![user_id] = EmptyUserData]
            /\ mandatory_channels' =
                 IF /\ text \in DOMAIN IntTexts
                    /\ 0 <= IntTexts[text] - 1
                    /\ IntTexts[text] - 1 < Len(mandatory_channels)
                 THEN RemoveAt(mandatory_channels, IntTexts[text])
                 ELSE mandatory_channels
    /\ UNCHANGED <<now, admins, users, files, spam_control,
                   user_channel_memberships, reply, probed, shown, notice,
                   published, discarded, tasks, user_message_map, outbox, sweeps>>

\* button_callback, data = "add_admin"
button_add_admin(user_id) ==
    /\ user_data' = IF is_admin(user_id) /\ user_id = MAIN_ADMIN_ID
                    THEN [user_data EXCEPT ![user_id].awaiting = "new_admin_id"]
                    ELSE user_data
    /\ UNCHANGED <<now, admins, users, files, mandatory_channels, spam_control,
                   user_channel_memberships, reply, probed, shown, notice,
                   published, discarded, tasks, user_message_map, outbox, sweeps>>

\* handle_text, awaiting = 'new_admin_id'
text_new_admin_id(user_id, text) ==
    /\ user_data[user_id].awaiting = "new_admin_id"
    /\ IF user_id # MAIN_ADMIN_ID
       THEN UNCHANGED <<user_data, admins>>
       ELSE /\ user_data' = [user_data EXCEPT ![user_id] = EmptyUserData]
            /\ admins' = IF text \in DOMAIN IntTexts
                         THEN admins \cup {IntTexts[text]}
                         ELSE admins
    /\ UNCHANGED <<now, users, files, mandatory_channels, spam_control,
                   user_channel_memberships, reply, probed, shown, notice,
                   published, discarded, tasks, user_message_map, outbox, sweeps>>

\* button_callback, data = "remove_admin"
button_remove_admin(user_id) ==
    /\ user_data' = IF is_admin(user_id) /\ user_id = MAIN_ADMIN_ID
                    THEN [user_data EXCEPT ![user_id].awaiting = "remove_admin_id"]
                    ELSE user_data
    /\ UNCHANGED <<now, admins, users, files, mandatory_channels, spam_control,
                   user_channel_memberships, reply, probed, shown, notice,
                   published, discarded, tasks, user_message_map, outbox, sweeps>>

\* handle_text, awaiting = 'remove_admin_id'
text_remove_admin_id(user_id, text) ==
    /\ user_data[user_id].awaiting = "remove_admin_id"
    /\ IF user_id # MAIN_ADMIN_ID
       THEN UNCHANGED <<user_data, admins>>
       ELSE /\ user_data' = [user_data EXCEPT ![user_id] = EmptyUserData]
            /\ admins' = IF text \in DOMAIN IntTexts /\ IntTexts[text] # MAIN_ADMIN_ID
                         THEN admins \ {IntTexts[text]}
                         ELSE admins
    /\ UNCHANGED <<now, users, files, mandatory_channels, spam_control,
                   user_channel_memberships, reply, probed, shown, notice,
                   published, discarded, tasks, user_message_map, outbox, sweeps>>

\* A file of a message: the dict handle_admin_media appends
File(file_type, telegram_file_id) ==
    [file_type |-> file_type, telegram_file_id |-> telegram_file_id]

\* list.append(file) on the list object of the session of user_id, seen through
\* self.files: every file group whose 'files' is that object shows the new file
AppendShared(user_id, file) ==
    [c \in DOMAIN files |->
        IF c \in user_data[user_id].shared
        THEN [files[c] EXCEPT !.files = Append(@, file)]
        ELSE files[c]]

\* handle_media for an administrator: handle_admin_media with the file of the
\* message; 'awaiting' is not looked at
handle_admin_media(user_id, file_type, telegram_file_id) ==
    /\ is_admin(user_id)
    /\ Len(user_data[user_id].temp_files) < MaxFiles
    /\ IF file_type \notin {"photo", "video"}
       THEN UNCHANGED <<user_data, files>>
       ELSE /\ user_data' = [user_data EXCEPT ![user_id].temp_files =
                                Append(@, File(file_type, telegram_file_id))]
            /\ files' = AppendShared(user_id, File(file_type, telegram_file_id))
    /\ UNCHANGED <<now, admins, users, mandatory_channels, spam_control,
                   user_channel_memberships, reply, probed, shown, notice,
                   published, discarded, tasks, user_message_map, outbox, sweeps>>

\* A finish button that does not look at the list of files
button_finish_files_unchecked(user_id) ==
    /\ user_data' = [user_data EXCEPT ![user_id].awaiting = "caption_for_files"]
    /\ UNCHANGED <<now, admins, users, files, mandatory_channels, spam_control,
                   user_channel_memberships, reply, probed, shown, notice,
                   published, discarded, tasks, user_message_map, outbox, sweeps>>

\* button_callback, data = "finish_files"
button_finish_files(user_id) ==
    /\ IF user_data[user_id].temp_files = <<>>
       THEN /\ user_data' = [user_data EXCEPT ![user_id] = EmptyUserData]
            /\ notice' = "no_files"
       ELSE /\ user_data' = [user_data EXCEPT ![user_id].awaiting =
                                "caption_for_files"]
            /\ UNCHANGED notice
    /\ UNCHANGED <<now, admins, users, files, mandatory_channels, spam_control,
                   user_channel_memberships, reply, probed, shown, published,
                   discarded, tasks, user_message_map, outbox, sweeps>>

\* A cancel that ends the dialogue and keeps the list of files
button_cancel_upload_keeps(user_id) ==
    /\ user_data' = [user_data EXCEPT ![user_id].awaiting = "none"]
    /\ discarded' = discarded \cup Range(user_data[user_id].temp_files)
    /\ UNCHANGED <<now, admins, users, files, mandatory_channels, spam_control,
                   user_channel_memberships, reply, probed, shown, notice,
                   published, tasks, user_message_map, outbox, sweeps>>

\* button_callback, data = "cancel_upload"
button_cancel_upload(user_id) ==
    /\ user_data' = [user_data EXCEPT ![user_id] = EmptyUserData]
    /\ discarded' = discarded \cup Range(user_data[user_id].temp_files)
    /\ UNCHANGED <<now, admins, users, files, mandatory_channels, spam_control,
                   user_channel_memberships, reply, probed, shown, notice,
                   published, tasks, user_message_map, outbox, sweeps>>

\* button_callback, data = "no_caption_files"
button_no_caption_files(user_id) ==
    /\ IF user_data[user_id].temp_files = <<>>
       THEN /\ user_data' = [user_data EXCEPT ![user_id] = EmptyUserData]
            /\ notice' = "no_files"
       ELSE /\ user_data' = [user_data EXCEPT ![user_id].caption = "None",
                                              ![user_id].awaiting = "delete_time"]
            /\ UNCHANGED notice
    /\ UNCHANGED <<now, admins, users, files, mandatory_channels, spam_control,
                   user_channel_memberships, reply, probed, shown, published,
                   discarded, tasks, user_message_map, outbox, sweeps>>

\* handle_text, awaiting = 'caption_for_files'
text_caption_for_files(user_id, text) ==
    /\ user_data[user_id].awaiting = "caption_for_files"
    /\ IF ~is_admin(user_id)
       THEN UNCHANGED <<user_data, notice>>
       ELSE IF user_data[user_id].temp_files = <<>>
       THEN /\ user_data' = [user_data EXCEPT ![user_id] = EmptyUserData]
            /\ notice' = "no_files"
       ELSE /\ user_data' = [user_data EXCEPT ![user_id].caption = text,
                                              ![user_id].awaiting = "delete_time"]
            /\ UNCHANGED notice
    /\ UNCHANGED <<now, admins, users, files, mandatory_channels, spam_control,
                   user_channel_memberships, reply, probed, shown, published,
                   discarded, tasks, user_message_map, outbox, sweeps>>

\* The file group text_delete_time stores for the session of user_id
FileGroup(user_id, delete_seconds) ==
    [files |-> user_data[user_id].temp_files,
     caption |-> user_data[user_id].caption,
     delete_seconds |-> delete_seconds,
     uploaded_by |-> user_id]

\* The aliasing after self.files[unique_code] = {...}: the entry stored before
\* under the code is gone, whichever list it referred to
Unshare(unique_code) ==
    [u \in DOMAIN user_data |-> [user_data[u] EXCEPT !.shared = @ \ {unique_code}]]

\* The range test with both ends of the range refused
OutOfRange_exclusive(delete_seconds) ==
    delete_seconds <= MIN_DELETE_SECONDS \/ delete_seconds >= MAX_DELETE_SECONDS

\* The range test without its lower end
OutOfRange_upper(delete_seconds) == delete_seconds > MAX_DELETE_SECONDS

\* delete_seconds < 5 or delete_seconds > 30
OutOfRange(delete_seconds) ==
    delete_seconds < MIN_DELETE_SECONDS \/ delete_seconds > MAX_DELETE_SECONDS

\* handle_text, awaiting = 'delete_time'; unique_code is what
\* secrets.token_urlsafe(8) returns; replied tells whether get_me() and
\* reply_text() return: when one of them raises, the handler ends before
\* context.user_data.clear(), after the file group is stored.
text_delete_time(user_id, text, unique_code, replied) ==
    /\ user_data[user_id].awaiting = "delete_time"
    /\ IF ~is_admin(user_id)
       THEN UNCHANGED <<user_data, files, notice, published, tasks,
                        user_message_map, outbox, sweeps>>
       ELSE IF text \notin DOMAIN IntTexts
       THEN /\ notice' = "not_a_number"
            /\ UNCHANGED <<user_data, files, published, tasks, user_message_map,
                           outbox, sweeps>>
       ELSE IF OutOfRange(IntTexts[text])
       THEN /\ notice' = "out_of_range"
            /\ UNCHANGED <<user_data, files, published, tasks, user_message_map,
                           outbox, sweeps>>
       ELSE /\ files' = Put(files, unique_code, FileGroup(user_id, IntTexts[text]))
            /\ published' = Put(published, unique_code,
                                FileGroup(user_id, IntTexts[text]))
            /\ IF replied
               THEN /\ user_data' = [Unshare(unique_code) EXCEPT
                                        ![user_id] = EmptyUserData]
                    /\ notice' = "committed"
               ELSE /\ user_data' = [Unshare(unique_code) EXCEPT
                                        ![user_id].shared = @ \cup {unique_code}]
                    /\ UNCHANGED notice
    /\ UNCHANGED <<now, admins, users, mandatory_channels, spam_control,
                   user_channel_memberships, reply, probed, shown, discarded, tasks,
                   user_message_map, outbox, sweeps>>

\* str.strip() on the texts the model sends
strip(text) == IF text = " c1 " THEN "c1" ELSE text

\* The numbers of file groups after which the loops of list_files and
\* expire_file break
LIST_FILES_LIMIT == 20
EXPIRE_FILE_LIMIT == 10

\* The file groups a loop over self.files.items() that breaks at idx >= limit
\* goes through. The dict hands them out in the order they were stored, which
\* the function files does not keep: past the limit, any limit of them.
Page(limit) ==
    IF Cardinality(DOMAIN files) <= limit THEN {DOMAIN files}
    ELSE {codes \in SUBSET DOMAIN files : Cardinality(codes) = limit}

\* caption = file_info.get('caption', default); len(caption) > 30: the key is
\* always there, so the default is never taken, and len(None) raises TypeError.
\* The captions of the model are shorter than 30 characters.
Shorten(caption) == IF caption = "None" THEN "TypeError" ELSE caption

\* The entry of a file group in the list of list_files, which shows the
\* deletion time as well, and in the list of expire_file
Entry(code, kind) ==
    IF kind = "list_files"
    THEN [code |-> code,
          file_count |-> Len(files[code].files),
          caption |-> Shorten(files[code].caption),
          delete_time |-> files[code].delete_seconds]
    ELSE [code |-> code,
          file_count |-> Len(files[code].files),
          caption |-> Shorten(files[code].caption)]

\* The loop over the file groups raises
Raises(codes) == \E code \in codes : Shorten(files[code].caption) = "TypeError"

\* The message with the list: its entries and the number of the line
\* "... and N more"
Listed(chat_id, kind, codes, limit) ==
    [chat_id |-> chat_id, kind |-> kind,
     entries |-> {Entry(code, kind) : code \in codes},
     more |-> IF Cardinality(codes) >= limit
              THEN Cardinality(DOMAIN files) - limit ELSE 0]

\* button_callback, data = "list_files"; got_me tells whether get_me()
\* returns. Whatever is raised is caught, and the error text is shown.
button_list_files(user_id, got_me) ==
    /\ IF is_admin(user_id) /\ files # EmptyDict
       THEN \E codes \in Page(LIST_FILES_LIMIT) :
               outbox' = IF ~got_me \/ Raises(codes)
                         THEN <<[chat_id |-> user_id, kind |-> "list_files_error",
                                 entries |-> {}, more |-> 0]>>
                         ELSE <<Listed(user_id, "list_files", codes,
                                       LIST_FILES_LIMIT)>>
       ELSE UNCHANGED outbox
    /\ UNCHANGED <<now, admins, users, files, mandatory_channels, spam_control,
                   user_channel_memberships, user_data, reply, probed, shown,
                   notice, published, discarded, tasks, user_message_map, sweeps>>

\* button_callback, data = "expire_file": 'awaiting' is set before the list is
\* built, and nothing catches what the loop raises: the handler ends there and
\* no message is shown
button_expire_file(user_id) ==
    /\ user_data' = IF is_admin(user_id) /\ files # EmptyDict
                    THEN [user_data EXCEPT ![user_id].awaiting = "expire_file_code"]
                    ELSE user_data
    /\ IF is_admin(user_id) /\ files # EmptyDict
       THEN \E codes \in Page(EXPIRE_FILE_LIMIT) :
               outbox' = IF Raises(codes) THEN outbox
                         ELSE <<Listed(user_id, "expire_file", codes,
                                       EXPIRE_FILE_LIMIT)>>
       ELSE UNCHANGED outbox
    /\ UNCHANGED <<now, admins, users, files, mandatory_channels, spam_control,
                   user_channel_memberships, reply, probed, shown, notice,
                   published, discarded, tasks, user_message_map, sweeps>>

\* A del that removes nothing
Del_nothing(d, k) == d

\* del self.files[file_code]
Del(d, k) == [x \in DOMAIN d \ {k} |-> d[x]]

\* handle_text, awaiting = 'expire_file_code'; replied tells whether the
\* reply_text() of the branch taken returns: when it raises, the handler ends
\* before context.user_data.clear()
text_expire_file_code(user_id, text, replied) ==
    LET file_code == strip(text)
    IN /\ user_data[user_id].awaiting = "expire_file_code"
       /\ IF ~is_admin(user_id)
          THEN UNCHANGED <<user_data, files, notice, published, tasks,
                           user_message_map, outbox, sweeps>>
          ELSE /\ files' = IF file_code \in DOMAIN files
                           THEN Del(files, file_code) ELSE files
               /\ published' = IF file_code \in DOMAIN files
                               THEN Del(published, file_code) ELSE published
               /\ user_data' =
                     LET ud == IF file_code \in DOMAIN files
                               THEN Unshare(file_code) ELSE user_data
                     IN IF replied THEN [ud EXCEPT ![user_id] = EmptyUserData]
                        ELSE ud
               /\ notice' = IF ~replied THEN notice
                            ELSE IF file_code \in DOMAIN files
                            THEN "expired" ELSE "not_found"
       /\ UNCHANGED <<now, admins, users, mandatory_channels, spam_control,
                      user_channel_memberships, reply, probed, shown, discarded,
                      tasks, user_message_map, outbox, sweeps>>

\* ------------------------------------------------------------------------
\* The clock
\* ------------------------------------------------------------------------

Tick(d) ==
    /\ now + d <= MaxTime
    /\ now' = now + d
    /\ UNCHANGED <<admins, users, files, mandatory_channels, spam_control,
                   user_channel_memberships, user_data, reply, probed, shown,
                   notice, published, discarded, tasks, user_message_map, outbox,
                   sweeps>>

\* ------------------------------------------------------------------------
\* The bot after TelegramBot.__init__
\* ------------------------------------------------------------------------

Init ==
    /\ now = 0
    /\ admins = {MAIN_ADMIN_ID}
    /\ users = EmptyDict
    /\ files = EmptyDict
    /\ mandatory_channels = <<>>
    /\ spam_control = EmptyDict
    /\ user_channel_memberships = EmptyDict
    /\ user_data = [u \in Users |-> EmptyUserData]
    /\ reply = NoReply
    /\ probed = {}
    /\ shown = {}
    /\ notice = "none"
    /\ published = EmptyDict
    /\ discarded = {}
    /\ tasks = <<>>
    /\ user_message_map = EmptyDict
    /\ outbox = <<>>
    /\ sweeps = <<>>

\* ------------------------------------------------------------------------
\* Specifications
\* ------------------------------------------------------------------------

\* No dialogue of the user is in progress
Idle(user_id) == user_data[user_id] = EmptyUserData

\* The dialogues with which an administrator sets the gate up, each one started
\* when no other is in progress: adding a channel, removing one, and uploading a
\* file group of one photo without caption.
ConfigureGate(user_id) ==
    \/ Idle(user_id) /\ button_add_channel(user_id)
    \/ \E text \in ChannelTexts :
          \E is_bot_admin \in BotAdminOutcomes(text) :
              text_channel_link(user_id, text, is_bot_admin)
    \/ text_channel_button_text(user_id)
    \/ Idle(user_id) /\ button_remove_channel(user_id)
    \/ \E text \in {"1", "2"} : text_remove_channel_key(user_id, text)
    \/ /\ user_data[user_id].awaiting = "none"
       /\ user_data[user_id].temp_channel_info = NoChannelInfo
       /\ handle_admin_media(user_id, "photo", "f1")
    \/ /\ user_data[user_id].awaiting = "none"
       /\ user_data[user_id].temp_files # <<>>
       /\ button_finish_files(user_id)
    \/ /\ user_data[user_id].awaiting = "caption_for_files"
       /\ button_no_caption_files(user_id)
    \/ \E text \in {"5", "4"}, unique_code \in Codes :
          text_delete_time(user_id, text, unique_code, TRUE)

\* The dialogues with which the main administrator makes user 1 an administrator
\* and takes that away again
ConfigureAdmins(user_id) ==
    \/ Idle(user_id) /\ button_add_admin(user_id)
    \/ \E text \in {"1", "x"} : text_new_admin_id(user_id, text)
    \/ Idle(user_id) /\ button_remove_admin(user_id)
    \/ \E text \in {"1", "0"} : text_remove_admin_id(user_id, text)

\* The gated requests of a user, with the outcomes of their remote calls
Start(user_id) ==
    \E file_code \in Codes, pr \in ProbeInputs :
        \E ok \in SendInputs(file_code) : handle_file_access(user_id, file_code, pr, ok)

Redownload(user_id) ==
    \E file_code \in Codes, pr \in ProbeInputs :
        \E ok \in SendInputs(file_code) : redownload(user_id, file_code, pr, ok)

Check(user_id) ==
    \E file_code \in Codes, pr \in ProbeInputs :
        \E ok \in SendInputs(file_code) : check(user_id, file_code, pr, ok)

\* A prompt with join links and the check_ button has been displayed to the user
Prompted(user_id) == \E p \in shown : p[1] = user_id

\* The gate: the main administrator sets it up and changes it while user 1, who
\* is no administrator, asks for the files. A dialogue writes only the
\* administrator's user_data until its last step, and no request reads that, so
\* the requests are taken between the dialogues. The check_ button is pressed
\* after a prompt has displayed it; the redownload_ button may be one of a message
\* of an earlier run of the bot, whose tables start empty. The clock moves by the
\* window of the rate limiter.
Next ==
    \/ ConfigureGate(MAIN_ADMIN_ID)
    \/ Idle(MAIN_ADMIN_ID) /\ Start(1)
    \/ Idle(MAIN_ADMIN_ID) /\ Redownload(1)
    \/ Idle(MAIN_ADMIN_ID) /\ Prompted(1) /\ Check(1)
    \/ /\ Idle(MAIN_ADMIN_ID)
       /\ now + WindowTicks <= GateSeconds * TicksPerSecond
       /\ Tick(WindowTicks)

Spec == Init /\ [][Next]_vars

\* The rate limiter: user 1 sends requests at any pace, tick by tick, while the
\* main administrator makes and unmakes user 1 an administrator. No channel and
\* no file group exists; the buttons pressed are those of messages of an earlier
\* run of the bot.
NextRate ==
    \/ ConfigureAdmins(MAIN_ADMIN_ID)
    \/ Start(1)
    \/ Redownload(1)
    \/ Check(1)
    \/ Tick(1)

SpecRate == Init /\ [][NextRate]_vars

\* The messages and codes of the upload specifications: the two kinds of file
\* the MessageHandler of handle_media lets through, a caption, texts for the
\* deletion time on both sides of both ends of the range, and the texts sent to
\* expire a code
UploadCodes == {"c1", "c2"}
Uploads == {<<"photo", "f1">>, <<"video", "f2">>}
Captions == {"cap"}
TtlTexts == {"5", "30", "4", "31", "3", "-3", "x"}
ExpireTexts == {"c1", " c1 ", "c2", "zz"}

\* The upload dialogue of an administrator, with every button of its messages
\* pressed at any time. Each message carries a file of its own: one thrown away
\* by cancel_upload is not sent again. secrets.token_urlsafe(8) returns a code
\* that is not in use.
Upload(user_id) ==
    \/ \E up \in Uploads :
          /\ File(up[1], up[2]) \notin discarded
          /\ handle_admin_media(user_id, up[1], up[2])
    \/ button_finish_files(user_id)
    \/ button_cancel_upload(user_id)
    \/ button_no_caption_files(user_id)
    \/ \E text \in Captions : text_caption_for_files(user_id, text)
    \/ \E text \in TtlTexts, unique_code \in UploadCodes \ DOMAIN files :
          \E replied \in BOOLEAN :
              text_delete_time(user_id, text, unique_code, replied)

\* The upload dialogues of the main administrator. No channel is required, no
\* request is made and the clock stands still.
NextUpload == Upload(MAIN_ADMIN_ID)

SpecUpload == Init /\ [][NextUpload]_vars

\* The upload dialogue with photos, without a caption and with the shortest
\* deletion time
Publish(user_id) ==
    \/ handle_admin_media(user_id, "photo", "f1")
    \/ button_finish_files(user_id)
    \/ button_no_caption_files(user_id)
    \/ \E unique_code \in UploadCodes \ DOMAIN files, replied \in BOOLEAN :
          text_delete_time(user_id, "5", unique_code, replied)

\* The dialogue with which an administrator expires a code
Expire(user_id) ==
    \/ button_expire_file(user_id)
    \/ \E text \in ExpireTexts, replied \in BOOLEAN :
          text_expire_file_code(user_id, text, replied)

\* The /start requests of a user for the codes of the upload specifications
Lookup(user_id) ==
    \E file_code \in UploadCodes, pr \in ProbeInputs :
        \E ok \in SendInputs(file_code) :
            handle_file_access(user_id, file_code, pr, ok)

\* The registry: the main administrator publishes file groups and expires codes
\* while user 1, who is no administrator, asks for the codes with /start. No
\* channel is required and the clock stands still.
NextRegistry ==
    \/ Publish(MAIN_ADMIN_ID)
    \/ Expire(MAIN_ADMIN_ID)
    \/ Lookup(1)

SpecRegistry == Init /\ [][NextRegistry]_vars

\* The dialogue that expires the code of the gate specifications, started when
\* no other dialogue is in progress
ExpireCode(user_id) ==
    \/ Idle(user_id) /\ button_expire_file(user_id)
    \/ text_expire_file_code(user_id, "c1", TRUE)

\* Redelivery: the gate with its dialogues, the expiry of the code, and the
\* requests of user 1 between the dialogues, all at one instant of the clock, so
\* that the fifth request within the window blocks the user for good.
NextRedeliver ==
    \/ ConfigureGate(MAIN_ADMIN_ID)
    \/ ExpireCode(MAIN_ADMIN_ID)
    \/ Idle(MAIN_ADMIN_ID) /\ Start(1)
    \/ Idle(MAIN_ADMIN_ID) /\ Redownload(1)
    \/ Idle(MAIN_ADMIN_ID) /\ Prompted(1) /\ Check(1)

SpecRedeliver == Init /\ [][NextRedeliver]_vars

\* ------------------------------------------------------------------------
\* Properties of the membership gate
\* ------------------------------------------------------------------------

\* The record of the user for the channel is satisfied in table ucm
Satisfied(ucm, user_id, channel_key) ==
    user_id \in DOMAIN ucm /\ MemberGet(ucm[user_id], channel_key)

\* The keys of a list of channels
KeysOf(channels) == {channels[i].key : i \in DOMAIN channels}

\* The step leaves the clock and the dialogues alone, as every gated request does
Quiet == now' = now /\ user_data' = user_data

\* The step is a gated request of user 1, through the entry point reply' names
Served ==
    /\ Quiet
    /\ \/ reply'.kind = "start" /\ Start(1)
       \/ reply'.kind = "redownload" /\ Redownload(1)
       \/ reply'.kind = "check" /\ Check(1)

\* The step is a gated request of user 1 in which check_membership ran
Evaluation == reply'.evaluated /\ Served

\* C1: a request that delivers the file group, or sends any media message of it,
\* has run check_membership, and the list it returned is empty or, through the
\* check_ button only, made of channels without can_auto_verify: no request whose
\* list holds a channel with can_auto_verify sends a media message.
C1_DeliveryOnlyThroughGate ==
    (reply.outcome = "Delivered" \/ reply.sent > 0) =>
        /\ reply.evaluated
        /\ \A i \in DOMAIN reply.not_joined :
              reply.kind = "check" /\ ~reply.not_joined[i].can_auto_verify

\* C1, its case: the check_ button has delivered with a non-empty list
C1_Witness ==
    /\ reply.kind = "check"
    /\ reply.outcome = "Delivered"
    /\ reply.not_joined # <<>>

\* C2 as stated: for every user, the record of a channel with can_auto_verify is
\* satisfied only if a probe has reported that user as a member of it.
C2_AutoSatisfiedOnlyByProbe ==
    \A u \in Users, k \in AutoKeys :
        Satisfied(user_channel_memberships, u, k) => <<u, k>> \in probed

\* C3: a satisfied record of user 1 for a channel without can_auto_verify stays
\* satisfied in every step, and every evaluation of check_membership for user 1
\* leaves that channel out of the list it returns.
C3_TrustNeverReverts ==
    [][\A k \in TrustKeys :
          Satisfied(user_channel_memberships, 1, k) =>
              /\ Satisfied(user_channel_memberships', 1, k)
              /\ (Evaluation => k \notin KeysOf(reply'.not_joined))]_vars

\* C3, its case: /start has evaluated the gate after the check_ button had marked
\* a channel without can_auto_verify (no probe ever reported it), and the channel
\* is not on the list
C3_Witness ==
    /\ reply.kind = "start"
    /\ reply.evaluated
    /\ \E k \in TrustKeys :
          /\ Satisfied(user_channel_memberships, 1, k)
          /\ <<1, k>> \notin probed
          /\ <<1, k>> \in shown
          /\ k \notin KeysOf(reply.not_joined)

\* C4: in every evaluation, for every channel with can_auto_verify: a probe that
\* reports a member leaves the channel out of the list and the record satisfied; a
\* probe that reports a non-member puts it on the list and sets the record to
\* False; a probe that fails leaves the record as it was, and the channel is on the
\* list exactly when the record was not satisfied.
C4_AutoFollowsProbe ==
    [][Evaluation =>
          \A k \in AutoKeys :
              LET row == IF 1 \in DOMAIN user_channel_memberships
                         THEN user_channel_memberships[1] ELSE EmptyDict
                  row2 == user_channel_memberships'[1]
                  unmet == KeysOf(reply'.not_joined)
              IN IF reply'.pr[k] \in MemberStatuses
                 THEN k \notin unmet /\ MemberGet(row2, k)
                 ELSE IF reply'.pr[k] = "error"
                 THEN /\ (k \in DOMAIN row2) = (k \in DOMAIN row)
                      /\ (k \in DOMAIN row => row2[k] = row[k])
                      /\ (k \in unmet) = ~MemberGet(row, k)
                 ELSE /\ k \in unmet
                      /\ k \in DOMAIN row2
                      /\ row2[k] = FALSE]_vars

\* C4, its case: the probe of an evaluation has failed for a channel whose record
\* was satisfied, and the channel is not on the list
C4_Witness ==
    /\ reply.evaluated
    /\ \E k \in DOMAIN reply.pr :
          /\ reply.pr[k] = "error"
          /\ Satisfied(user_channel_memberships, 1, k)
          /\ k \notin KeysOf(reply.not_joined)

\* The scenario of C5: two channels, one with can_auto_verify and one without
OneAutoOneTrust ==
    /\ Len(mandatory_channels) = 2
    /\ Cardinality(AutoKeys) = 1
    /\ Cardinality(TrustKeys) = 1

AutoKey == CHOOSE k \in AutoKeys : TRUE

TrustKey == CHOOSE k \in TrustKeys : TRUE

\* ... and user 1 has no satisfied record for either
BothUnmet ==
    /\ OneAutoOneTrust
    /\ \A k \in ChannelKeys : ~Satisfied(user_channel_memberships, 1, k)

\* ... and, after a rejected confirmation, only the record of the channel without
\* can_auto_verify is satisfied
OnlyTrustMet ==
    /\ OneAutoOneTrust
    /\ Satisfied(user_channel_memberships, 1, TrustKey)
    /\ ~Satisfied(user_channel_memberships, 1, AutoKey)

\* The parts of C5 that do not depend on the sends: /start lists both channels in
\* the order of mandatory_channels, and an evaluation after a rejected confirmation
\* lists only the channel with can_auto_verify
C5_Lists ==
    /\ (BothUnmet /\ reply'.evaluated /\ reply'.kind = "start" /\ Quiet /\ Start(1)
          /\ reply'.pr[AutoKey] \notin MemberStatuses) =>
            /\ reply'.outcome = "MembershipRequired"
            /\ reply'.not_joined = mandatory_channels
    /\ (OnlyTrustMet /\ Evaluation /\ reply'.pr[AutoKey] \notin MemberStatuses) =>
            /\ KeysOf(reply'.not_joined) = {AutoKey}
            /\ Len(reply'.not_joined) = 1

\* The rejected confirmation of C5: nothing is sent, the channel without
\* can_auto_verify is marked and the other is not
C5_Rejected ==
    /\ reply'.outcome = "MembershipRequired"
    /\ reply'.sent = 0
    /\ Satisfied(user_channel_memberships', 1, TrustKey)
    /\ ~Satisfied(user_channel_memberships', 1, AutoKey)

\* C5 as stated: in the scenario, a check_ request that passes the rate limiter for
\* an existing code ends as Delivered when the probe reports a member, and is
\* rejected otherwise.
C5_ConfirmDelivers ==
    [][/\ C5_Lists
       /\ (BothUnmet /\ reply'.evaluated /\ reply'.kind = "check" /\ Quiet /\ Check(1)
             /\ reply'.code \in DOMAIN files) =>
             IF reply'.pr[AutoKey] \in MemberStatuses
             THEN reply'.outcome = "Delivered"
             ELSE C5_Rejected]_vars

\* C5, amended: when the probe reports a member the check_ request runs
\* send_files_to_user, which ends as Delivered exactly when every send succeeds and
\* as DeliveryError when one fails; the rest as stated.
C5_ConfirmSends ==
    [][/\ C5_Lists
       /\ (BothUnmet /\ reply'.evaluated /\ reply'.kind = "check" /\ Quiet /\ Check(1)
             /\ reply'.code \in DOMAIN files) =>
             IF reply'.pr[AutoKey] \in MemberStatuses
             THEN /\ reply'.outcome \in {"Delivered", "DeliveryError"}
                  /\ (reply'.outcome = "Delivered") =
                        (reply'.sent = Len(files[reply'.code].files))
                  /\ Satisfied(user_channel_memberships', 1, TrustKey)
                  /\ Satisfied(user_channel_memberships', 1, AutoKey)
             ELSE C5_Rejected]_vars

\* C5, its case: the check_ button was pressed with both channels unmet and was
\* rejected, which marked the channel without can_auto_verify
C5_Witness ==
    /\ reply.kind = "check"
    /\ reply.outcome = "MembershipRequired"
    /\ Len(reply.not_joined) = 2
    /\ reply.code \in DOMAIN files
    /\ OnlyTrustMet
    /\ KeysOf(reply.not_joined) = ChannelKeys

\* C6 as stated: a step marks a channel without can_auto_verify satisfied for user
\* 1 only if an earlier request has presented that channel to user 1 in a prompt.
C6_ConfirmOnlyShown ==
    [][\A k \in TrustKeys :
          (/\ ~Satisfied(user_channel_memberships, 1, k)
           /\ Satisfied(user_channel_memberships', 1, k)) =>
              <<1, k>> \in shown]_vars

\* ------------------------------------------------------------------------
\* Properties of the rate limiter
\* ------------------------------------------------------------------------

\* The block of the user has not expired at time now
BlockInForce(user_id) ==
    /\ user_id \in DOMAIN spam_control
    /\ spam_control[user_id].blocked_until # NoBlock
    /\ now < spam_control[user_id].blocked_until

\* The block of the user has expired and is still recorded
BlockExpired(user_id) ==
    /\ user_id \in DOMAIN spam_control
    /\ spam_control[user_id].blocked_until # NoBlock
    /\ now >= spam_control[user_id].blocked_until

\* The step is a gated request user 1 makes while being no administrator
Attempt == ~is_admin(1) /\ Served

\* request_count counts the requests check_spam has seen in a row, each less than
\* the window after the one before: the request that finds it at SPAM_BURST - 1
\* within the window is the fifth of them. It is answered with a wait of the block
\* duration and sets the block to end that long after now.
C7_FifthBlocks ==
    (/\ 1 \in DOMAIN spam_control
     /\ spam_control[1].blocked_until = NoBlock
     /\ spam_control[1].request_count = SPAM_BURST - 1
     /\ now - spam_control[1].last_request < WindowTicks) =>
        /\ reply'.outcome = "RateLimited"
        /\ reply'.wait = SPAM_BLOCK_SECONDS
        /\ spam_control'[1].blocked_until = now + BlockTicks

\* The first request after the block has expired is let through by the limiter and
\* leaves the counter at 1 with no block
C7_AfterExpiry ==
    BlockExpired(1) =>
        /\ reply'.outcome \notin {"Blocked", "RateLimited"}
        /\ spam_control'[1] = SpamInfo(1, now, NoBlock)

WithinASecond ==
    /\ 1 \in DOMAIN spam_control
    /\ now - spam_control[1].last_request <= TicksPerSecond

\* Call 5 of the burst of C8: the block is set
C8_Fifth ==
    (/\ WithinASecond
     /\ spam_control[1].blocked_until = NoBlock
     /\ spam_control[1].request_count = SPAM_BURST - 1) =>
        /\ reply'.outcome = "RateLimited"
        /\ reply'.wait = SPAM_BLOCK_SECONDS
        /\ spam_control'[1] = SpamInfo(SPAM_BURST, now, now + BlockTicks)

\* Call 6 of the burst of C8: answered with the remaining time, the block unchanged
C8_Sixth ==
    (/\ WithinASecond
     /\ spam_control[1].request_count = SPAM_BURST
     /\ spam_control[1].blocked_until = spam_control[1].last_request + BlockTicks) =>
        /\ reply'.outcome = "Blocked"
        /\ reply'.wait = IntSeconds(spam_control[1].blocked_until - now)
        /\ reply'.wait \in {SPAM_BLOCK_SECONDS - 1, SPAM_BLOCK_SECONDS}
        /\ spam_control' = spam_control

\* C8 as stated: a user without RateState is throttled from the first call on,
\* calls 2 to 4 are throttled with a wait below that of the call before, call 5
\* sets the block and call 6 is answered with the remaining time, the block
\* unchanged.
C8_ThrottledFromFirstCall ==
    [][Attempt =>
          /\ (1 \notin DOMAIN spam_control => reply'.outcome = "RateLimited")
          /\ (/\ WithinASecond
              /\ spam_control[1].blocked_until = NoBlock
              /\ spam_control[1].request_count \in 1..(SPAM_BURST - 2)) =>
                 /\ reply'.outcome = "RateLimited"
                 /\ (reply.outcome = "RateLimited" => reply'.wait < reply.wait)
          /\ C8_Fifth
          /\ C8_Sixth]_vars

\* C8, amended: call 1 is let through and creates the RateState with the counter
\* at 1; calls 2 to 4 are throttled, each with the wait int(2 - elapsed), which is
\* 1 or 2 seconds whatever the call before was told; calls 5 and 6 as stated.
C8_BurstOfSix ==
    [][Attempt =>
          /\ (1 \notin DOMAIN spam_control =>
                 /\ reply'.outcome \notin {"RateLimited", "Blocked"}
                 /\ spam_control'[1] = SpamInfo(1, now, NoBlock))
          /\ (/\ WithinASecond
              /\ spam_control[1].blocked_until = NoBlock
              /\ spam_control[1].request_count \in 1..(SPAM_BURST - 2)) =>
                 /\ reply'.outcome = "RateLimited"
                 /\ reply'.wait =
                       IntSeconds(WindowTicks - (now - spam_control[1].last_request))
                 /\ reply'.wait \in 1..SPAM_WINDOW_SECONDS
                 /\ spam_control'[1] =
                       SpamInfo(spam_control[1].request_count + 1, now, NoBlock)
          /\ C8_Fifth
          /\ C8_Sixth]_vars

\* C8, its case: within the first second of the run user 1 has made the five
\* calls that set the block and a sixth, which was answered Blocked
C8_Witness ==
    /\ ~is_admin(1)
    /\ now <= TicksPerSecond
    /\ 1 \in DOMAIN spam_control
    /\ spam_control[1].request_count = SPAM_BURST
    /\ reply.outcome = "Blocked"

\* C9: every gated request of a user who is no administrator calls
\* is_temp_blocked first; while the block is in force it ends as Blocked with the
\* whole seconds left, check_spam is not called, spam_control is unchanged,
\* check_membership does not run, no record changes and nothing is sent.
C9_BlockedBeforeAttempt ==
    [][Attempt =>
          /\ Len(reply'.calls) >= 1
          /\ reply'.calls[1] = "is_temp_blocked"
          /\ BlockInForce(1) =>
                /\ reply'.outcome = "Blocked"
                /\ reply'.wait = IntSeconds(spam_control[1].blocked_until - now)
                /\ reply'.calls = <<"is_temp_blocked">>
                /\ spam_control' = spam_control
                /\ ~reply'.evaluated
                /\ reply'.sent = 0
                /\ user_channel_memberships' = user_channel_memberships
                /\ probed' = probed]_vars

\* C9, its case: with a channel to probe and an existing file group, the
\* redownload_ button was answered Blocked
C9_Witness ==
    /\ reply.kind = "redownload"
    /\ reply.outcome = "Blocked"
    /\ BlockInForce(1)
    /\ AutoKeys # {}
    /\ reply.code \in DOMAIN files

\* C10: a gated request of user 1 made while user 1 is an administrator calls
\* neither is_temp_blocked nor check_spam, leaves spam_control unchanged and does
\* not end as RateLimited or Blocked.
C10_AdminExempt ==
    [][(is_admin(1) /\ Served) =>
          /\ reply'.calls = <<>>
          /\ spam_control' = spam_control
          /\ reply'.outcome \notin {"RateLimited", "Blocked"}]_vars

\* C10, its case: user 1, blocked by the limiter and then made an administrator,
\* has had a request served while that block is still in force
C10_Witness ==
    /\ is_admin(1)
    /\ BlockInForce(1)
    /\ reply.kind = "check"
    /\ reply.calls = <<>>

\* ------------------------------------------------------------------------
\* Properties of the order of the checks
\* ------------------------------------------------------------------------

\* User 1 has a requirement that no request can find met: a channel without
\* can_auto_verify whose record is not satisfied
TrustUnmet ==
    \E k \in TrustKeys : ~Satisfied(user_channel_memberships, 1, k)

\* The request of the step passed the rate limiter
PassedLimiter == reply'.outcome \notin {"UserBlocked", "Blocked", "RateLimited"}

\* C11: a request is taken through the rate limiter, then the membership gate,
\* then the lookup of the code: a request that passes the limiter, for a code
\* that is not in self.files, by a user with an unmet requirement, ends with the
\* join prompt, through /start as through the redownload_ and check_ buttons.
C11_GateBeforeLookup ==
    [][(/\ PassedLimiter
        /\ reply'.code \notin DOMAIN files
        /\ TrustUnmet
        /\ Served)
       => reply'.outcome = "MembershipRequired"]_vars

\* The step is a redownload_ request of user 1 that sends a media message
Redelivery ==
    /\ Quiet
    /\ reply'.kind = "redownload"
    /\ (reply'.sent > 0 \/ reply'.outcome = "Delivered")
    /\ Redownload(1)

\* C12: a redownload_ request of a user who is no administrator sends a media
\* message only if the user is not under a temporary block, the rate limiter
\* does not count the request as one too many, check_membership ran in this
\* request and left every required channel satisfied, and the code is in
\* self.files: the same checks as for /start, none skipped.
C12_RedeliveryGated ==
    [][Redelivery
       => /\ ~BlockInForce(1)
          /\ ~check_spam(is_temp_blocked(spam_control, 1, now).sc, 1, now).is_spam
          /\ reply'.calls = <<"is_temp_blocked", "check_spam">>
          /\ reply'.evaluated
          /\ reply'.not_joined = <<>>
          /\ \A k \in KeysOf(mandatory_channels) :
                Satisfied(user_channel_memberships', 1, k)
          /\ reply'.code \in DOMAIN files]_vars

\* C12, its case: the redownload_ button has delivered while a channel is
\* required
C12_Witness ==
    /\ reply.kind = "redownload"
    /\ reply.outcome = "Delivered"
    /\ mandatory_channels # <<>>
    /\ reply.code \in DOMAIN files

\* ------------------------------------------------------------------------
\* Properties of the upload dialogue and of the registry
\* ------------------------------------------------------------------------

\* context.user_data of the main administrator, the producer of the upload
\* specifications
Session == user_data[MAIN_ADMIN_ID]

\* The texts for the deletion time that are integers of the range
ValidTtlTexts ==
    {text \in TtlTexts :
        /\ text \in DOMAIN IntTexts
        /\ IntTexts[text] >= MIN_DELETE_SECONDS
        /\ IntTexts[text] <= MAX_DELETE_SECONDS}

\* The step appends the file to the list of the session and to nothing else of it
C13_Item ==
    \A up \in Uploads :
        handle_admin_media(MAIN_ADMIN_ID, up[1], up[2])
        => /\ Session'.temp_files = Append(Session.temp_files, File(up[1], up[2]))
           /\ Session'.awaiting = Session.awaiting
           /\ Session'.caption = Session.caption
           /\ Session = EmptyUserData => Len(Session'.temp_files) = 1

\* The finish button on a list that is not empty asks for the caption
C13_Finish ==
    (Session.temp_files # <<>> /\ button_finish_files(MAIN_ADMIN_ID))
    => /\ Session'.temp_files = Session.temp_files
       /\ Session'.awaiting = "caption_for_files"

\* A caption, or the button that skips it, asks for the deletion time
C13_Caption ==
    /\ \A text \in Captions :
          (Session.temp_files # <<>> /\ text_caption_for_files(MAIN_ADMIN_ID, text))
          => /\ Session'.temp_files = Session.temp_files
             /\ Session'.caption = text
             /\ Session'.awaiting = "delete_time"
    /\ (Session.temp_files # <<>> /\ button_no_caption_files(MAIN_ADMIN_ID))
       => /\ Session'.temp_files = Session.temp_files
          /\ Session'.caption = "None"
          /\ Session'.awaiting = "delete_time"

\* A deletion time of the range stores one file group under the new code and
\* clears context.user_data, whether or not the calls that send the link return
C13_Commit ==
    \A text \in ValidTtlTexts, unique_code \in UploadCodes \ DOMAIN files :
        (\E replied \in BOOLEAN :
            text_delete_time(MAIN_ADMIN_ID, text, unique_code, replied))
        => /\ DOMAIN files' = DOMAIN files \cup {unique_code}
           /\ \A c \in DOMAIN files : files'[c] = files[c]
           /\ files'[unique_code].files = Session.temp_files
           /\ Len(files'[unique_code].files) >= 1
           /\ files'[unique_code].caption = Session.caption
           /\ files'[unique_code].delete_seconds = IntTexts[text]
           /\ Session' = EmptyUserData

\* C13: the files sent, then the finish button, then a caption or the button
\* that skips it, then an integer of 5..30 as text, store exactly one file group
\* with those files in the order of their arrival, that caption (None when
\* skipped) and that deletion time, and clear the session; the next file starts
\* a list of length 1.
C13_UploadCommits ==
    [][C13_Item /\ C13_Finish /\ C13_Caption /\ C13_Commit]_vars

\* The step is the handler of the deletion time taking the text from the main
\* administrator
TtlStep(text) ==
    /\ Session.awaiting = "delete_time"
    /\ \E unique_code \in UploadCodes \ DOMAIN files, replied \in BOOLEAN :
          text_delete_time(MAIN_ADMIN_ID, text, unique_code, replied)

\* C14: a text for the deletion time that is no integer, or an integer outside
\* 5..30 (3, 4, 31, -3), is answered with a refusal: no file group is stored and
\* the files, the caption and the state of the session stay as they are; 5 and
\* 30 are taken and store a file group with that deletion time.
C14_TtlRange ==
    [][/\ \A text \in {"3", "4", "31", "-3", "x"} :
             TtlStep(text)
             => /\ files' = files
                /\ user_data' = user_data
                /\ notice' \in {"out_of_range", "not_a_number"}
       /\ \A text \in {"5", "30"} :
             TtlStep(text)
             => /\ Cardinality(DOMAIN files') = Cardinality(DOMAIN files) + 1
                /\ \E c \in DOMAIN files' \ DOMAIN files :
                      /\ files'[c].delete_seconds = IntTexts[text]
                      /\ files'[c].files = Session.temp_files]_vars

\* C14, its case: a text was refused and the session still waits for the
\* deletion time with its files and its caption
C14_Witness ==
    /\ notice = "out_of_range"
    /\ Session.awaiting = "delete_time"
    /\ Session.temp_files = <<File("photo", "f1"), File("video", "f2")>>
    /\ Session.caption = "cap"
    /\ files = EmptyDict

\* C15: a file that arrives while the session waits for the caption or for the
\* deletion time is refused and leaves the list of files and the state of the
\* session as they are, so that the stored file group holds the files received
\* before the finish button and no other.
C15_LateItemRejected ==
    [][\A up \in Uploads :
          (/\ Session.awaiting \in {"caption_for_files", "delete_time"}
           /\ handle_admin_media(MAIN_ADMIN_ID, up[1], up[2]))
          => /\ Session'.temp_files = Session.temp_files
             /\ Session'.awaiting = Session.awaiting]_vars

\* C16: the cancel button, pressed while files are collected or while the
\* caption is awaited (or in any other state), clears the session and stores no
\* file group; no file of a list thrown away by it is in a file group stored
\* afterwards.
C16_CancelDiscards ==
    [][/\ button_cancel_upload(MAIN_ADMIN_ID)
          => /\ Session' = EmptyUserData
             /\ files' = files
             /\ published' = published
       /\ \A text \in ValidTtlTexts, unique_code \in UploadCodes \ DOMAIN files :
             (\E replied \in BOOLEAN :
                 text_delete_time(MAIN_ADMIN_ID, text, unique_code, replied))
             => Range(files'[unique_code].files) \cap discarded = {}]_vars

\* C16, its case: a list with the photo was cancelled while its caption was
\* awaited or before, and a file group is stored that holds the video alone
C16_Witness ==
    /\ discarded = {File("photo", "f1")}
    /\ Session = EmptyUserData
    /\ \E c \in DOMAIN files : files[c].files = <<File("video", "f2")>>

\* C17: the finish button pressed when the list of files is empty or absent is
\* answered with an error: the session does not go on to await the caption, and
\* no file group without a file is ever stored.
C17_NoEmptyUpload ==
    [][/\ (Session.temp_files = <<>> /\ button_finish_files(MAIN_ADMIN_ID))
          => /\ Session'.awaiting # "caption_for_files"
             /\ Session' = EmptyUserData
             /\ notice' = "no_files"
             /\ files' = files
       /\ \A c \in DOMAIN files' : Len(files'[c].files) >= 1]_vars

\* C17, its case: the finish button was answered with the error, nothing is
\* awaited and nothing is stored
C17_Witness ==
    /\ notice = "no_files"
    /\ Session.awaiting = "none"
    /\ Session.temp_files = <<>>
    /\ files = EmptyDict

\* The step is a /start request of user 1 that delivers a file group
LookupDelivers ==
    /\ user_data' = user_data
    /\ notice' = notice
    /\ reply'.kind = "start"
    /\ reply'.outcome = "Delivered"
    /\ Lookup(1)

\* C18: a /start request for a code that was given out and has not been expired
\* delivers the file group as it was stored under the code: the same files in
\* the same order, the same caption, the same deletion time.
C18_LookupReturnsPublished ==
    [][LookupDelivers
       => /\ files[reply'.code] = published[reply'.code]
          /\ reply'.sent = Len(published[reply'.code].files)]_vars

\* The step is the handler of the code to expire taking the text from the main
\* administrator
ExpireStep(text, replied) ==
    /\ Session.awaiting = "expire_file_code"
    /\ text_expire_file_code(MAIN_ADMIN_ID, text, replied)

\* The code the texts of ExpireTexts name once the blanks around them are gone
NamedCode(text) == IF text \in {"c1", " c1 "} THEN "c1" ELSE text

\* C19: expiring a code removes its file group and answers with the success
\* text if and only if the code is a key of self.files, and leaves the other
\* file groups alone; a code that is absent, or was expired before, is answered
\* with the failure text and self.files stays as it is. A /start request that
\* passes the rate limiter for a code that is not in self.files ends as
\* CodeNotFound and sends nothing.
C19_Expire ==
    [][/\ \A text \in ExpireTexts, replied \in BOOLEAN :
             ExpireStep(text, replied)
             => IF NamedCode(text) \in DOMAIN files
                THEN /\ DOMAIN files' = DOMAIN files \ {NamedCode(text)}
                     /\ \A c \in DOMAIN files' : files'[c] = files[c]
                     /\ replied => notice' = "expired"
                ELSE /\ files' = files
                     /\ replied => notice' = "not_found"
       /\ (/\ user_data' = user_data
           /\ notice' = notice
           /\ reply'.kind = "start"
           /\ reply'.code \notin DOMAIN files
           /\ Lookup(1))
          => /\ reply'.sent = 0
             /\ PassedLimiter => reply'.outcome = "CodeNotFound"]_vars

\* C19, its case: a code was expired with success and a /start request for a
\* code that is not a key of self.files has ended as CodeNotFound, while another
\* file group is still there
C19_Witness ==
    /\ notice = "expired"
    /\ reply.kind = "start"
    /\ reply.outcome = "CodeNotFound"
    /\ reply.code \notin DOMAIN files
    /\ files # EmptyDict

\* C20: a stored file group never changes: its files, caption and deletion time
\* stay what they were through every later step, whether files sent later by
\* the same administrator or a failure while the link is sent; and it leaves
\* self.files only when an administrator expires its code.
C20_BundleImmutable ==
    [][\A c \in DOMAIN files :
          /\ c \in DOMAIN files' => files'[c] = files[c]
          /\ c \notin DOMAIN files'
             => \E text \in ExpireTexts, replied \in BOOLEAN :
                   NamedCode(text) = c /\ ExpireStep(text, replied)]_vars

\* C21: storing a file group never replaces one: a code that secrets.token_urlsafe
\* returns and that is a key of self.files already is not used, so that every
\* deletion time taken makes self.files one larger and leaves the file groups
\* of the earlier codes as they were.
C21_PublishNeverReplaces ==
    [][\A text \in {"5"}, unique_code \in Codes :
          (/\ Session.awaiting = "delete_time"
           /\ text_delete_time(MAIN_ADMIN_ID, text, unique_code, TRUE))
          => /\ Cardinality(DOMAIN files') = Cardinality(DOMAIN files) + 1
             /\ \A c \in DOMAIN files : c \in DOMAIN files' /\ files'[c] = files[c]]_vars

\* A request of user 1 that called send_files_to_user
Delivery(kind) ==
    /\ reply'.kind = kind
    /\ reply'.user = 1
    /\ reply'.outcome \in {"Delivered", "DeliveryError"}
    /\ \/ kind = "start" /\ Start(1)
       \/ kind = "redownload" /\ Redownload(1)
       \/ kind = "check" /\ Check(1)

\* C22: when a send of a delivery fails, no later file of the group is sent, the
\* requester is shown the delivery error and no text that says the files were
\* sent, whether the request was /start, the redownload_ button or the check_
\* button; no cleanup task is created for the messages sent before the failure
\* and nothing is appended to self.downloads.
C22_FailedDelivery ==
    [][\A kind \in {"start", "redownload", "check"} :
          (Delivery(kind) /\ reply'.sent < Len(files[reply'.code].files))
          => /\ reply'.outcome = "DeliveryError"
             /\ Len(reply'.messages) = reply'.sent
             /\ reply'.scheduled = <<>>
             /\ reply'.recorded = <<>>
             /\ "DeliveryError" \in Range(reply'.told)
             /\ "FileSent" \notin Range(reply'.told)]_vars

\* ------------------------------------------------------------------------
\* The cleanup task: schedule_message_deletion_and_send_buttons
\* ------------------------------------------------------------------------

\* Most cleanup tasks the delivery specification starts.
MaxTasks == 2

\* Every variable but reply, tasks and now
TablesAndDialogues ==
    <<admins, users, files, mandatory_channels, spam_control,
      user_channel_memberships, user_data, probed, shown, notice, published,
      discarded, user_message_map, outbox, sweeps>>

\* The event loop runs a coroutine given to asyncio.create_task up to its first
\* await, asyncio.sleep(delay_seconds), before it handles the next update: the
\* task sleeps until due. calls lists the calls of the Bot API it has made.
cleanup_begin ==
    /\ reply.scheduled # <<>>
    /\ tasks' = Append(tasks, [args |-> reply.scheduled[1],
                               due |-> now + reply.scheduled[1].delay_seconds
                                             * TicksPerSecond,
                               calls |-> <<>>, done |-> FALSE])
    /\ reply' = [reply EXCEPT !.scheduled = Tail(reply.scheduled)]
    /\ UNCHANGED now
    /\ UNCHANGED TablesAndDialogues

\* asyncio.sleep has returned at once
Woken_at_once(task) == TRUE

\* asyncio.sleep(delay_seconds) has returned
Woken(task) == task.due <= now

\* The keyboard of the message sent after the deletions
Buttons(file_code) ==
    (IF file_code # "" THEN <<[data |-> "redownload", file_code |-> file_code]>>
     ELSE <<>>)
    \o <<[data |-> "contact_admin", file_code |-> ""]>>

\* A loop that stops deleting once the code of the task is no key of self.files
cleanup_delete_revocable(k, ok) ==
    /\ k \in DOMAIN tasks
    /\ ~tasks[k].done
    /\ Woken(tasks[k])
    /\ tasks[k].args.file_code \in DOMAIN files
    /\ Len(tasks[k].calls) < Len(tasks[k].args.message_ids)
    /\ tasks' = [tasks EXCEPT ![k].calls =
                    Append(@, [op |-> "delete_message",
                               chat_id |-> tasks[k].args.chat_id,
                               message_id |-> tasks[k].args.message_ids[Len(@) + 1],
                               buttons |-> <<>>, ok |-> ok])]
    /\ UNCHANGED <<now, reply>>
    /\ UNCHANGED TablesAndDialogues

\* One turn of the loop over message_ids: delete_message succeeds (ok) or raises,
\* which is logged, and the loop goes on
cleanup_delete(k, ok) ==
    /\ k \in DOMAIN tasks
    /\ ~tasks[k].done
    /\ Woken(tasks[k])
    /\ Len(tasks[k].calls) < Len(tasks[k].args.message_ids)
    /\ tasks' = [tasks EXCEPT ![k].calls =
                    Append(@, [op |-> "delete_message",
                               chat_id |-> tasks[k].args.chat_id,
                               message_id |-> tasks[k].args.message_ids[Len(@) + 1],
                               buttons |-> <<>>, ok |-> ok])]
    /\ UNCHANGED <<now, reply>>
    /\ UNCHANGED TablesAndDialogues

\* After the loop: send_message with the keyboard, which ends the coroutine
\* whether it succeeds (ok) or raises
cleanup_send_buttons(k, ok) ==
    /\ k \in DOMAIN tasks
    /\ ~tasks[k].done
    /\ Woken(tasks[k])
    /\ Len(tasks[k].calls) = Len(tasks[k].args.message_ids)
    /\ tasks' = [tasks EXCEPT ![k].calls =
                    Append(@, [op |-> "send_message",
                               chat_id |-> tasks[k].args.chat_id,
                               message_id |-> 0,
                               buttons |-> Buttons(tasks[k].args.file_code),
                               ok |-> ok]),
                                ![k].done = TRUE]
    /\ UNCHANGED <<now, reply>>
    /\ UNCHANGED TablesAndDialogues

\* What the bot sends as a file group in the delivery specification
Bundles == {<<"photo", "f1">>, <<"video", "f2">>}

\* The upload dialogue of a file group with or without caption, stored under a
\* code that is not in use, with the shortest deletion time
Bundle(user_id) ==
    /\ Codes \ DOMAIN files # {}
    /\ \/ \E up \in Bundles : handle_admin_media(user_id, up[1], up[2])
       \/ /\ user_data[user_id].awaiting = "none"
          /\ button_finish_files(user_id)
       \/ /\ user_data[user_id].awaiting = "caption_for_files"
          /\ \/ button_no_caption_files(user_id)
             \/ text_caption_for_files(user_id, "cap")
       \/ \E unique_code \in Codes \ DOMAIN files :
             text_delete_time(user_id, "5", unique_code, TRUE)

\* The steps of the cleanup tasks
Cleanup ==
    \/ cleanup_begin
    \/ \E k \in DOMAIN tasks, ok \in BOOLEAN : cleanup_delete(k, ok)
    \/ \E k \in DOMAIN tasks, ok \in BOOLEAN : cleanup_send_buttons(k, ok)

\* The same dialogue with photos only and without caption
Photos(user_id) ==
    /\ Codes \ DOMAIN files # {}
    /\ \/ handle_admin_media(user_id, "photo", "f1")
       \/ /\ user_data[user_id].awaiting = "none"
          /\ button_finish_files(user_id)
       \/ /\ user_data[user_id].awaiting = "caption_for_files"
          /\ button_no_caption_files(user_id)
       \/ \E unique_code \in Codes \ DOMAIN files :
             text_delete_time(user_id, "5", unique_code, TRUE)

\* The sends of a delivery: the main administrator stores one file group, with
\* or without caption, and user 1 asks for it with /start and with the
\* redownload_ button. The clock stands still and the tasks are not followed.
NextSend ==
    \/ Bundle(MAIN_ADMIN_ID)
    \/ Idle(MAIN_ADMIN_ID) /\ Start(1)
    \/ Idle(MAIN_ADMIN_ID) /\ Redownload(1)

SpecSend == Init /\ [][NextSend]_vars

\* Deliveries and their cleanup: the main administrator stores one group of
\* photos, user 1 asks for it with /start and with the redownload_ button, the
\* tasks created run, and the clock moves by the deletion time. A created task
\* starts before the next update is handled and before time passes.
NextDelivery ==
    \/ Photos(MAIN_ADMIN_ID)
    \/ /\ Idle(MAIN_ADMIN_ID)
       /\ reply.scheduled = <<>>
       /\ Len(tasks) < MaxTasks
       /\ \/ Start(1)
          \/ Redownload(1)
    \/ Cleanup
    \/ /\ reply.scheduled = <<>>
       /\ Tick(MIN_DELETE_SECONDS * TicksPerSecond)

SpecDelivery == Init /\ [][NextDelivery]_vars

\* The cleanup tasks under the scheduling of the event loop, which runs a task
\* that can take a step
SpecDeliveryFair == SpecDelivery /\ WF_vars(Cleanup)

\* The message identities of a sequence of sent messages
MessageIds(messages) == [idx \in DOMAIN messages |-> messages[idx].message_id]

\* The calls a cleanup task has made are the deletions of its message_ids in
\* their order, whatever each one's outcome, followed, once they are all made,
\* by at most one send_message with the redownload_ button of its code and the
\* contact button, which ends the task
CallsInOrder(task) ==
    LET n == Len(task.args.message_ids)
    IN /\ Len(task.calls) <= n + 1
       /\ task.done <=> Len(task.calls) = n + 1
       /\ \A i \in DOMAIN task.calls :
             IF i <= n
             THEN /\ task.calls[i].op = "delete_message"
                  /\ task.calls[i].chat_id = task.args.chat_id
                  /\ task.calls[i].message_id = task.args.message_ids[i]
             ELSE /\ task.calls[i].op = "send_message"
                  /\ task.calls[i].chat_id = task.args.chat_id
                  /\ task.calls[i].buttons =
                        <<[data |-> "redownload", file_code |-> task.args.file_code],
                          [data |-> "contact_admin", file_code |-> ""]>>

\* A request of user 1 whose sends all succeeded records one download and hands
\* one coroutine to asyncio.create_task, without running or awaiting it
DeliveredOnce ==
    \A kind \in {"start", "redownload"} :
        (reply'.outcome = "Delivered" /\ Delivery(kind))
        => /\ reply'.recorded = <<[file_code |-> reply'.code, user_id |-> 1]>>
           /\ reply'.scheduled =
                 <<[chat_id |-> 1, message_ids |-> MessageIds(reply'.messages),
                    delay_seconds |-> files[reply'.code].delete_seconds,
                    file_code |-> reply'.code]>>
           /\ Len(reply'.messages) = Len(files[reply'.code].files)
           /\ tasks' = tasks
           /\ now' = now

\* A task that starts sleeps for the deletion time of the group, and a task makes
\* a call only when that time has passed
AfterTtl ==
    /\ Len(tasks') > Len(tasks)
       => /\ Len(tasks') = Len(tasks) + 1
          /\ tasks'[Len(tasks')].args = reply.scheduled[1]
          /\ tasks'[Len(tasks')].due
                = now + reply.scheduled[1].delay_seconds * TicksPerSecond
          /\ tasks'[Len(tasks')].calls = <<>>
    /\ \A k \in DOMAIN tasks :
          tasks'[k] # tasks[k]
          => /\ now >= tasks[k].due
             /\ Len(tasks'[k].calls) = Len(tasks[k].calls) + 1
    /\ \A k \in DOMAIN tasks' : CallsInOrder(tasks'[k])

\* The sleep of the k-th task is over; the k-th task has ended
Due(k) == IF k \in DOMAIN tasks THEN Woken(tasks[k]) ELSE FALSE

Done(k) == IF k \in DOMAIN tasks THEN tasks[k].done ELSE FALSE

\* C23: a delivery whose sends all succeed appends one record (code, user) to
\* self.downloads and creates one cleanup task without waiting for it; when the
\* deletion time of the group has passed since the task started, the task tries
\* to delete every message it was given, goes on after a deletion that fails,
\* and after the last attempt sends one message with the redownload_ button of
\* the code and the contact button.
C23_CleanupAfterTtl ==
    /\ [][DeliveredOnce /\ AfterTtl]_vars
    /\ \A k \in 1..MaxTasks : Due(k) ~> Done(k)

C23_Witness ==
    \E k \in DOMAIN tasks :
        /\ tasks[k].done
        /\ Len(tasks[k].args.message_ids) = 2
        /\ ~tasks[k].calls[1].ok
        /\ tasks[k].calls[2].ok
        /\ tasks[k].calls[3].op = "send_message"

\* C24: a delivery sends the files of the group in their stored order and keeps
\* one message identity for each file sent; the caption of a group that has one
\* goes with the first file only, and no later file has a caption.
C24_OrderAndCaption ==
    [][\A kind \in {"start", "redownload"} :
          Delivery(kind)
          => LET file_group == files[reply'.code]
                 messages == reply'.messages
             IN /\ Len(messages) = reply'.sent
                /\ \A idx \in DOMAIN messages :
                      /\ messages[idx].file = file_group.files[idx]
                      /\ \A j \in DOMAIN messages :
                            j # idx => messages[j].message_id
                                       # messages[idx].message_id
                /\ reply'.outcome = "Delivered"
                   => /\ Len(reply'.scheduled) = 1
                      /\ reply'.scheduled[1].message_ids = MessageIds(messages)
                      /\ Len(MessageIds(messages)) = Len(file_group.files)
                /\ file_group.caption # "None"
                   => \A idx \in DOMAIN messages :
                         IF idx = 1
                         THEN messages[idx].caption.text = file_group.caption
                         ELSE messages[idx].caption = NoCaption]_vars

C24_Witness ==
    /\ reply.outcome = "Delivered"
    /\ Len(reply.messages) = 2
    /\ reply.messages[1].file.file_type = "video"
    /\ reply.messages[2].file.file_type = "photo"
    /\ reply.messages[1].caption.text = "cap"
    /\ reply.messages[2].caption = NoCaption

\* ------------------------------------------------------------------------
\* The relay of user messages to the administrators and of their replies
\* ------------------------------------------------------------------------

\* Most entries of self.user_message_map before the relay specification stops
\* relaying.
MaxCopies == 3

\* A send of the Bot API: kind is "relay" for a copy of a user's message sent to
\* an administrator, "admin_reply" for a reply routed to a user, "admin_message"
\* for the message of the send_to_user dialogue; ok is FALSE when the send
\* raised; message_id is that of the sent message, 0 when none was sent;
\* user_id is the user whose update caused the send.
Sent(chat_id, kind, ok, message_id, user_id) ==
    [chat_id |-> chat_id, kind |-> kind, ok |-> ok, message_id |-> message_id,
     user_id |-> user_id]

\* sent_msg.message_id of the next message the bot sends in a private chat:
\* Telegram numbers the messages of the private chats of one account in one
\* sequence, so that no two copies have the same message_id
message_id(map) == Cardinality(DOMAIN map) + 1

\* The elements of a finite set of integers in ascending order
RECURSIVE Ascending(_)
Ascending(S) ==
    IF S = {} THEN <<>>
    ELSE LET least == CHOOSE x \in S : \A y \in S : x <= y
         IN <<least>> \o Ascending(S \ {least})

\* The loop of forward_to_admins that ends at the first send that raises
RECURSIVE ForwardLoop_stops(_, _, _, _, _)
ForwardLoop_stops(acc, admin_ids, i, user_id, delivered) ==
    IF i > Len(admin_ids) THEN acc
    ELSE IF admin_ids[i] \in delivered
    THEN ForwardLoop_stops(
             [map |-> Put(acc.map, message_id(acc.map), user_id),
              sent |-> Append(acc.sent, Sent(admin_ids[i], "relay", TRUE,
                                             message_id(acc.map), user_id))],
             admin_ids, i + 1, user_id, delivered)
    ELSE [map |-> acc.map,
          sent |-> Append(acc.sent, Sent(admin_ids[i], "relay", FALSE, 0, user_id))]

\* The loop of forward_to_admins over self.admins.keys(): the send to an
\* administrator in delivered returns sent_msg, whose message_id is mapped to the
\* sender; the send to another raises, which is logged, and the loop goes on
RECURSIVE ForwardLoop(_, _, _, _, _)
ForwardLoop(acc, admin_ids, i, user_id, delivered) ==
    IF i > Len(admin_ids) THEN acc
    ELSE IF admin_ids[i] \in delivered
    THEN ForwardLoop(
             [map |-> Put(acc.map, message_id(acc.map), user_id),
              sent |-> Append(acc.sent, Sent(admin_ids[i], "relay", TRUE,
                                             message_id(acc.map), user_id))],
             admin_ids, i + 1, user_id, delivered)
    ELSE ForwardLoop(
             [map |-> acc.map,
              sent |-> Append(acc.sent, Sent(admin_ids[i], "relay", FALSE, 0,
                                             user_id))],
             admin_ids, i + 1, user_id, delivered)

\* forward_to_admins(message_type, content, user_info, telegram_file_id): the
\* table and the sends it leaves
forward_to_admins(user_id, delivered) ==
    ForwardLoop([map |-> user_message_map, sent |-> <<>>], Ascending(admins), 1,
                user_id, delivered)

\* button_callback, data = "contact_admin"
button_contact_admin(user_id) ==
    /\ user_data' = [user_data EXCEPT ![user_id].awaiting = "user_content_to_admin"]
    /\ UNCHANGED <<now, admins, users, files, mandatory_channels, spam_control,
                   user_channel_memberships, reply, probed, shown, notice,
                   published, discarded, tasks, user_message_map, outbox, sweeps>>

\* handle_text, awaiting = 'user_content_to_admin'; replied is FALSE when
\* reply_text raises, which skips context.user_data.clear()
text_user_content_to_admin(user_id, delivered, replied) ==
    LET forwarded == forward_to_admins(user_id, delivered)
    IN /\ user_data[user_id].awaiting = "user_content_to_admin"
       /\ user_message_map' = forwarded.map
       /\ outbox' = forwarded.sent
       /\ user_data' = IF replied
                       THEN [user_data EXCEPT ![user_id] = EmptyUserData]
                       ELSE user_data
       /\ UNCHANGED <<now, admins, users, files, mandatory_channels, spam_control,
                      user_channel_memberships, reply, probed, shown, notice,
                      published, discarded, tasks, sweeps>>

\* ------------------------------------------------------------------------
\* The administrator's message to one user, blocking, and plain /start
\* ------------------------------------------------------------------------

\* button_callback, data = "send_to_user"
button_send_to_user(user_id) ==
    /\ user_data' = IF is_admin(user_id)
                    THEN [user_data EXCEPT ![user_id].awaiting = "target_user_id"]
                    ELSE user_data
    /\ UNCHANGED <<now, admins, users, files, mandatory_channels, spam_control,
                   user_channel_memberships, reply, probed, shown, notice,
                   published, discarded, tasks, user_message_map, outbox, sweeps>>

\* handle_text, awaiting = 'target_user_id'
text_target_user_id(user_id, text) ==
    /\ user_data[user_id].awaiting = "target_user_id"
    /\ user_data' =
          IF ~is_admin(user_id) THEN user_data
          ELSE IF text \in DOMAIN IntTexts
          THEN [user_data EXCEPT ![user_id].target_user_id = IntTexts[text],
                                 ![user_id].awaiting = "message_to_user"]
          ELSE [user_data EXCEPT ![user_id] = EmptyUserData]
    /\ UNCHANGED <<now, admins, users, files, mandatory_channels, spam_control,
                   user_channel_memberships, reply, probed, shown, notice,
                   published, discarded, tasks, user_message_map, outbox, sweeps>>

\* handle_text, awaiting = 'message_to_user': send_message to the target returns
\* (ok) or raises, which is logged and reported to the administrator
text_message_to_user(user_id, ok) ==
    LET target_user_id == user_data[user_id].target_user_id
    IN /\ user_data[user_id].awaiting = "message_to_user"
       /\ IF ~is_admin(user_id)
          THEN UNCHANGED <<user_data, outbox>>
          ELSE /\ user_data' = [user_data EXCEPT ![user_id] = EmptyUserData]
               /\ outbox' = IF target_user_id = NoTarget \/ target_user_id = 0
                            THEN <<>>
                            ELSE <<Sent(target_user_id, "admin_message", ok, 0,
                                        user_id)>>
       /\ UNCHANGED <<now, admins, users, files, mandatory_channels, spam_control,
                      user_channel_memberships, reply, probed, shown, notice,
                      published, discarded, tasks, user_message_map, sweeps>>

\* button_callback, data = "block_user"
button_block_user(user_id) ==
    /\ user_data' = IF is_admin(user_id)
                    THEN [user_data EXCEPT ![user_id].awaiting = "block_user_id"]
                    ELSE user_data
    /\ UNCHANGED <<now, admins, users, files, mandatory_channels, spam_control,
                   user_channel_memberships, reply, probed, shown, notice,
                   published, discarded, tasks, user_message_map, outbox, sweeps>>

\* handle_text, awaiting = 'block_user_id'
text_block_user_id(user_id, text) ==
    /\ user_data[user_id].awaiting = "block_user_id"
    /\ IF ~is_admin(user_id)
       THEN UNCHANGED <<user_data, users>>
       ELSE /\ user_data' = [user_data EXCEPT ![user_id] = EmptyUserData]
            /\ users' = IF text \in DOMAIN IntTexts /\ ~is_admin(IntTexts[text])
                        THEN Put(users, IntTexts[text], [is_blocked |-> TRUE])
                        ELSE users
    /\ UNCHANGED <<now, admins, files, mandatory_channels, spam_control,
                   user_channel_memberships, reply, probed, shown, notice,
                   published, discarded, tasks, user_message_map, outbox, sweeps>>

\* start_command without arguments: a user who is not blocked is created or
\* updated in self.users
start_command(user_id) ==
    /\ users' = IF user_id \in DOMAIN users /\ users[user_id].is_blocked
                THEN users
                ELSE Put(users, user_id, [is_blocked |-> FALSE])
    /\ UNCHANGED <<now, admins, files, mandatory_channels, spam_control,
                   user_channel_memberships, user_data, reply, probed, shown,
                   notice, published, discarded, tasks, user_message_map, outbox,
                   sweeps>>

\* ------------------------------------------------------------------------
\* The broadcast task: broadcast_message
\* ------------------------------------------------------------------------

\* Most broadcast tasks the broadcast specification creates.
MaxSweeps == 1

\* button_callback, data = "broadcast"
button_broadcast(user_id) ==
    /\ user_data' = IF is_admin(user_id)
                    THEN [user_data EXCEPT ![user_id].awaiting = "broadcast_message"]
                    ELSE user_data
    /\ UNCHANGED <<now, admins, users, files, mandatory_channels, spam_control,
                   user_channel_memberships, reply, probed, shown, notice,
                   published, discarded, tasks, user_message_map, outbox, sweeps>>

\* The coroutine broadcast_message(text, admin_id) as asyncio.create_task gets
\* it: status is "created" before it has run, "sending" while it awaits the send
\* to pending, "reporting" while it awaits the send of the report, "reported"
\* when that returned, "report_failed" when that raised, and "aborted" when the
\* loop raised. order and size are the keys and the size of self.users when the
\* iterator of the loop was made, pos the place of the iterator, attempted the
\* users a send was made to.
NewSweep(admin_id) ==
    [admin_id |-> admin_id, status |-> "created", order |-> <<>>, size |-> 0,
     pos |-> 1, pending |-> NoTarget, attempted |-> <<>>, success_count |-> 0,
     fail_count |-> 0]

\* handle_text, awaiting = 'broadcast_message'
text_broadcast_message(user_id, text) ==
    /\ user_data[user_id].awaiting = "broadcast_message"
    /\ IF ~is_admin(user_id)
       THEN UNCHANGED <<user_data, sweeps>>
       ELSE /\ user_data' = [user_data EXCEPT ![user_id] = EmptyUserData]
            /\ sweeps' = Append(sweeps, NewSweep(user_id))
    /\ UNCHANGED <<now, admins, users, files, mandatory_channels, spam_control,
                   user_channel_memberships, reply, probed, shown, notice,
                   published, discarded, tasks, user_message_map, outbox>>

\* The places of order from pos on whose user is not blocked
Unblocked(sweep) ==
    {j \in DOMAIN sweep.order :
        j >= sweep.pos /\ ~users[sweep.order[j]].is_blocked}

\* The loop from one await to the next: next() of the iterator of
\* self.users.items() raises RuntimeError when the dictionary has changed size
\* since the iterator was made, which ends the coroutine; blocked users are
\* passed over; the send to the first user who is not blocked is awaited; when
\* no user is left the send of the report is awaited
Iterate(sweep) ==
    IF Cardinality(DOMAIN users) # sweep.size
    THEN [sweep EXCEPT !.status = "aborted", !.pending = NoTarget]
    ELSE IF Unblocked(sweep) = {}
    THEN [sweep EXCEPT !.status = "reporting", !.pending = NoTarget,
                       !.pos = Len(sweep.order) + 1]
    ELSE LET j == CHOOSE x \in Unblocked(sweep) : \A y \in Unblocked(sweep) : x <= y
         IN [sweep EXCEPT !.status = "sending", !.pending = sweep.order[j],
                          !.pos = j + 1,
                          !.attempted = Append(@, sweep.order[j])]

\* The first run of the coroutine: the iterator is made and the loop starts
broadcast_begin(k) ==
    /\ k \in DOMAIN sweeps
    /\ sweeps[k].status = "created"
    /\ sweeps' = [sweeps EXCEPT ![k] =
                    Iterate([@ EXCEPT !.order = Ascending(DOMAIN users),
                                      !.size = Cardinality(DOMAIN users)])]
    /\ UNCHANGED <<now, admins, users, files, mandatory_channels, spam_control,
                   user_channel_memberships, user_data, reply, probed, shown,
                   notice, published, discarded, tasks, user_message_map, outbox>>

\* The awaited send_message to pending returns (ok), after which the coroutine
\* sleeps 0.05 s, or raises, which is counted; then the loop goes on
broadcast_sent(k, ok) ==
    /\ k \in DOMAIN sweeps
    /\ sweeps[k].status = "sending"
    /\ sweeps' = [sweeps EXCEPT ![k] =
                    Iterate(IF ok THEN [@ EXCEPT !.success_count = @ + 1]
                                  ELSE [@ EXCEPT !.fail_count = @ + 1])]
    /\ outbox' = <<Sent(sweeps[k].pending, "broadcast", ok, 0, sweeps[k].admin_id)>>
    /\ UNCHANGED <<now, admins, users, files, mandatory_channels, spam_control,
                   user_channel_memberships, user_data, reply, probed, shown,
                   notice, published, discarded, tasks, user_message_map>>

\* The awaited send_message of the report to admin_id returns (ok) or raises,
\* which ends the coroutine with the exception
broadcast_report(k, ok) ==
    /\ k \in DOMAIN sweeps
    /\ sweeps[k].status = "reporting"
    /\ sweeps' = [sweeps EXCEPT ![k].status =
                    IF ok THEN "reported" ELSE "report_failed"]
    /\ outbox' = <<Sent(sweeps[k].admin_id, "report", ok, 0, sweeps[k].admin_id)>>
    /\ UNCHANGED <<now, admins, users, files, mandatory_channels, spam_control,
                   user_channel_memberships, user_data, reply, probed, shown,
                   notice, published, discarded, tasks, user_message_map>>

\* ------------------------------------------------------------------------
\* handle_text of a message that replies to another
\* ------------------------------------------------------------------------

\* The update of a message of user_id that replies to replied_to_message_id, as
\* outbox keeps it in front of the sends it caused
Received(user_id, replied_to_message_id) ==
    Sent(user_id, "reply", TRUE, replied_to_message_id, user_id)

\* The tests of handle_admin_reply without the one on is_admin
Routable_anyone(user_id, replied_to_message_id) ==
    /\ replied_to_message_id \in DOMAIN user_message_map
    /\ user_message_map[replied_to_message_id] # 0

\* The tests of handle_admin_reply that lead to the send: the sender is an
\* administrator and self.user_message_map.get(replied_to_message_id) is truthy
Routable(user_id, replied_to_message_id) ==
    /\ is_admin(user_id)
    /\ replied_to_message_id \in DOMAIN user_message_map
    /\ user_message_map[replied_to_message_id] # 0

\* The user of the copy relayed last
target_latest(replied_to_message_id) ==
    user_message_map[Cardinality(DOMAIN user_message_map)]

\* target_user_id of handle_admin_reply
target(replied_to_message_id) == user_message_map[replied_to_message_id]

\* handle_admin_reply when it returns True: send_message to the target returns
\* (ok) or raises, and the administrator is told which
handle_admin_reply(user_id, replied_to_message_id, ok) ==
    /\ Routable(user_id, replied_to_message_id)
    /\ outbox' = <<Received(user_id, replied_to_message_id),
                   Sent(target(replied_to_message_id), "admin_reply", ok, 0,
                        user_id)>>
    /\ UNCHANGED <<now, admins, users, files, mandatory_channels, spam_control,
                   user_channel_memberships, user_data, reply, probed, shown,
                   notice, published, discarded, tasks, user_message_map, sweeps>>

\* handle_text with no 'awaiting' in context.user_data: it returns
text_ignored(user_id, replied_to_message_id) ==
    /\ user_data[user_id].awaiting = "none"
    /\ outbox' = <<Received(user_id, replied_to_message_id)>>
    /\ UNCHANGED <<now, admins, users, files, mandatory_channels, spam_control,
                   user_channel_memberships, user_data, reply, probed, shown,
                   notice, published, discarded, tasks, user_message_map, sweeps>>

\* handle_text of a message that replies to replied_to_message_id: when
\* handle_admin_reply returns False the handler goes on as for any other text,
\* to the branch of the value of 'awaiting'
text_reply(user_id, text, replied_to_message_id, ok) ==
    IF Routable(user_id, replied_to_message_id)
    THEN handle_admin_reply(user_id, replied_to_message_id, ok)
    ELSE \/ \E delivered \in SUBSET admins, replied \in BOOLEAN :
               text_user_content_to_admin(user_id, delivered, replied)
         \/ text_ignored(user_id, replied_to_message_id)
         \/ text_new_admin_id(user_id, text)
         \/ text_remove_admin_id(user_id, text)
         \/ text_broadcast_message(user_id, text)
         \/ text_target_user_id(user_id, text)
         \/ text_message_to_user(user_id, ok)
         \/ text_block_user_id(user_id, text)

\* The users who write to the administrators in the relay specification
Senders == {1, 2}

\* The message ids replied to: the recorded ones and one that is not
RepliedTo == 1..(MaxCopies + 2)

\* The relay: users 1 and 2 write to the administrators, whose copies are mapped
\* until MaxCopies are; the main administrator makes user 1 an administrator and
\* takes that away; the main administrator and user 1 reply to messages, some of
\* which are copies.
NextRelay ==
    \/ ConfigureAdmins(MAIN_ADMIN_ID)
    \/ \E user_id \in Senders : Idle(user_id) /\ button_contact_admin(user_id)
    \/ /\ Cardinality(DOMAIN user_message_map) < MaxCopies
       /\ \E user_id \in Senders, delivered \in SUBSET admins, replied \in BOOLEAN :
             text_user_content_to_admin(user_id, delivered, replied)
    \/ \E user_id \in {MAIN_ADMIN_ID, 1}, text \in {"1", "hi"},
          replied_to_message_id \in RepliedTo, ok \in BOOLEAN :
          /\ \/ Cardinality(DOMAIN user_message_map) < MaxCopies
             \/ user_data[user_id].awaiting # "user_content_to_admin"
          /\ text_reply(user_id, text, replied_to_message_id, ok)

SpecRelay == Init /\ [][NextRelay]_vars

\* A step in which user_id sends text as a reply to replied_to_message_id
ReplyStep(user_id, text, replied_to_message_id) ==
    \E ok \in BOOLEAN : text_reply(user_id, text, replied_to_message_id, ok)

\* C25: a reply of an administrator to a message whose message_id was never put
\* in self.user_message_map does nothing: no message is sent to anyone because
\* of it and no table changes, whatever input the administrator is being asked
\* for.
C25_UnrecordedReplyNoOp ==
    [][\A user_id \in {MAIN_ADMIN_ID, 1}, text \in {"1", "hi"},
         replied_to_message_id \in RepliedTo :
          (/\ is_admin(user_id)
           /\ replied_to_message_id \notin DOMAIN user_message_map
           /\ ReplyStep(user_id, text, replied_to_message_id))
          => /\ admins' = admins
             /\ users' = users
             /\ files' = files
             /\ mandatory_channels' = mandatory_channels
             /\ user_message_map' = user_message_map
             /\ sweeps' = sweeps
             /\ \/ outbox' = outbox
                \/ outbox' = <<Received(user_id, replied_to_message_id)>>]_vars

\* C26: the message_id of a copy sent to an administrator stays mapped to the
\* user whose message was copied, whatever is relayed later, and a reply of an
\* administrator to the copy, at any later time, is sent to that user and to
\* nobody else.
C26_ReplyReachesSender ==
    [][/\ \A m \in DOMAIN user_message_map :
             /\ m \in DOMAIN user_message_map'
             /\ user_message_map'[m] = user_message_map[m]
       /\ outbox' # outbox
          => \A i \in DOMAIN outbox' :
                (outbox'[i].kind = "relay" /\ outbox'[i].ok)
                => /\ outbox'[i].message_id \notin DOMAIN user_message_map
                   /\ user_message_map'[outbox'[i].message_id] = outbox'[i].user_id
       /\ \A user_id \in {MAIN_ADMIN_ID, 1}, text \in {"1", "hi"},
            replied_to_message_id \in RepliedTo :
             (/\ is_admin(user_id)
              /\ replied_to_message_id \in DOMAIN user_message_map
              /\ ReplyStep(user_id, text, replied_to_message_id))
             => /\ Len(outbox') = 2
                /\ outbox'[1] = Received(user_id, replied_to_message_id)
                /\ outbox'[2].kind = "admin_reply"
                /\ outbox'[2].chat_id = user_message_map[replied_to_message_id]]_vars

\* An administrator replied to the first copy, which is of a message of user 1,
\* after a message of user 2 had been copied, and the reply reached user 1
C26_Witness ==
    /\ Len(outbox) = 2
    /\ outbox[1].kind = "reply"
    /\ outbox[1].message_id = 1
    /\ outbox[2] = Sent(1, "admin_reply", TRUE, 0, MAIN_ADMIN_ID)
    /\ \E m \in DOMAIN user_message_map : m > 1 /\ user_message_map[m] = 2

\* C27: a reply of a user who is not an administrator, one who was an
\* administrator and no longer is included, is never routed to the user a copy
\* is mapped to.
C27_OnlyOperatorsReply ==
    [][\A user_id \in {MAIN_ADMIN_ID, 1}, text \in {"1", "hi"},
         replied_to_message_id \in RepliedTo :
          (/\ ~is_admin(user_id)
           /\ replied_to_message_id \in DOMAIN user_message_map
           /\ ReplyStep(user_id, text, replied_to_message_id))
          => \/ outbox' = outbox
             \/ \A i \in DOMAIN outbox' : outbox'[i].kind \in {"reply", "relay"}]_vars

\* User 1 received a copy of a message of user 2 as an administrator, is no
\* administrator any more, and replied to the copy: nothing was sent
C27_Witness ==
    /\ 1 \notin admins
    /\ outbox = <<Received(1, 2)>>
    /\ 2 \in DOMAIN user_message_map
    /\ user_message_map[2] = 2

\* C28: a relay tries a send to every administrator; the message_id of every
\* send that succeeds is mapped to the sender; a send that fails adds no entry
\* and does not keep the later sends from being tried.
C28_RelayToEveryOperator ==
    [][\A user_id \in Senders, delivered \in SUBSET admins :
          (/\ user_data[user_id].awaiting = "user_content_to_admin"
           /\ \E replied \in BOOLEAN :
                 text_user_content_to_admin(user_id, delivered, replied))
          => /\ {outbox'[i].chat_id : i \in DOMAIN outbox'} = admins
             /\ Len(outbox') = Cardinality(admins)
             /\ \A i \in DOMAIN outbox' :
                   /\ outbox'[i].kind = "relay"
                   /\ outbox'[i].ok <=> outbox'[i].chat_id \in delivered
                   /\ outbox'[i].ok
                      => /\ outbox'[i].message_id \notin DOMAIN user_message_map
                         /\ outbox'[i].message_id \in DOMAIN user_message_map'
                         /\ user_message_map'[outbox'[i].message_id] = user_id
             /\ Cardinality(DOMAIN user_message_map')
                   = Cardinality(DOMAIN user_message_map) + Cardinality(delivered)
             /\ \A m \in DOMAIN user_message_map :
                   /\ m \in DOMAIN user_message_map'
                   /\ user_message_map'[m] = user_message_map[m]]_vars

\* The send to the main administrator failed, the one to user 1 was tried
\* after it and succeeded, and its copy is mapped to the sender
C28_Witness ==
    /\ Len(outbox) = 2
    /\ outbox[1] = Sent(MAIN_ADMIN_ID, "relay", FALSE, 0, 2)
    /\ outbox[2].chat_id = 1
    /\ outbox[2].ok
    /\ user_message_map[outbox[2].message_id] = 2

\* The steps of the broadcast tasks
Sweep ==
    \/ \E k \in DOMAIN sweeps : broadcast_begin(k)
    \/ \E k \in DOMAIN sweeps, ok \in BOOLEAN : broadcast_sent(k, ok)
    \/ \E k \in DOMAIN sweeps, ok \in BOOLEAN : broadcast_report(k, ok)

\* The dialogues of the main administrator that start a broadcast, block a user
\* and send a message to one user, each started when no other is in progress
Administer(user_id) ==
    \/ Idle(user_id) /\ button_broadcast(user_id)
    \/ Len(sweeps) < MaxSweeps /\ text_broadcast_message(user_id, "hi")
    \/ Idle(user_id) /\ button_block_user(user_id)
    \/ \E text \in {"1", "2", "x"} : text_block_user_id(user_id, text)
    \/ Idle(user_id) /\ button_send_to_user(user_id)
    \/ \E text \in {"1", "x"} : text_target_user_id(user_id, text)
    \/ \E ok \in BOOLEAN : text_message_to_user(user_id, ok)

\* Broadcasts: users 1 and 2 send /start, the main administrator broadcasts,
\* blocks and writes to users, and the updates are handled while a broadcast
\* task awaits a send.
NextBroadcast ==
    \/ \E user_id \in Senders : start_command(user_id)
    \/ Administer(MAIN_ADMIN_ID)
    \/ Sweep

SpecBroadcast == Init /\ [][NextBroadcast]_vars

\* The broadcast tasks under the scheduling of the event loop, which runs a task
\* that can take a step
SpecBroadcastFair == SpecBroadcast /\ WF_vars(Sweep)

\* The k-th broadcast has been started; it has sent its report
Started(k) == k \in DOMAIN sweeps

Reported(k) ==
    IF k \in DOMAIN sweeps
    THEN sweeps[k].status \in {"reported", "report_failed"}
    ELSE FALSE

\* The counts of a broadcast add up to the number of users it sent to
Tally(k) ==
    LET sweep == sweeps[k]
    IN sweep.success_count + sweep.fail_count
          = Len(sweep.attempted) - (IF sweep.status = "sending" THEN 1 ELSE 0)

\* C29: every broadcast that is started goes through the users and sends one
\* report to the administrator who started it, with success and failure counts
\* that add up to the number of users who are not blocked it sent to, also when
\* sends fail and when a new user's /start or the blocking of an unknown user is
\* handled while the broadcast is under way.
C29_BroadcastReports ==
    /\ [](\A k \in DOMAIN sweeps : Tally(k))
    /\ \A k \in 1..MaxSweeps : Started(k) ~> Reported(k)

\* C30: a send to a user that fails because the user cannot be reached marks the
\* user blocked in self.users, in a delivery, a broadcast, a routed reply and a
\* message of an administrator alike, and marks no other user.
C30_UnreachableMarkedBlocked ==
    [][outbox' # outbox
       => \A i \in DOMAIN outbox' :
             (/\ outbox'[i].kind \in {"broadcast", "admin_reply", "admin_message"}
              /\ ~outbox'[i].ok
              /\ outbox'[i].chat_id \in DOMAIN users)
             => /\ users'[outbox'[i].chat_id].is_blocked
                /\ \A u \in DOMAIN users \ {outbox'[i].chat_id} :
                      users'[u] = users[u]]_vars

\* ------------------------------------------------------------------------
\* Properties of the lists of file groups
\* ------------------------------------------------------------------------

\* The upload dialogue with one photo for each file group, with a caption or
\* without one, the shortest deletion time and a code that is not in use
Store(user_id) ==
    \/ /\ user_data[user_id].temp_files = <<>>
       /\ handle_admin_media(user_id, "photo", "f1")
    \/ Idle(user_id) /\ button_finish_files(user_id)
    \/ /\ user_data[user_id].awaiting = "none"
       /\ user_data[user_id].temp_files # <<>>
       /\ button_finish_files(user_id)
    \/ /\ user_data[user_id].awaiting = "caption_for_files"
       /\ button_no_caption_files(user_id)
    \/ \E text \in Captions : text_caption_for_files(user_id, text)
    \/ \E unique_code \in UploadCodes \ DOMAIN files :
          text_delete_time(user_id, "5", unique_code, TRUE)

\* The buttons of the administrator keyboard that list the file groups
List(user_id) ==
    \/ \E got_me \in BOOLEAN : button_list_files(user_id, got_me)
    \/ button_expire_file(user_id)

\* The lists: the main administrator stores file groups with a caption and
\* without one and presses the buttons that list them. The clock stands still.
NextList ==
    \/ Store(MAIN_ADMIN_ID)
    \/ List(MAIN_ADMIN_ID)

SpecList == Init /\ [][NextList]_vars

\* The entries a list shows when it is complete: one for each file group, up
\* to the limit
Complete(kind, limit) ==
    /\ Len(outbox') = 1
    /\ outbox'[1].kind = kind
    /\ {e.code : e \in outbox'[1].entries} \in Page(limit)

\* C31: whatever self.files holds, file groups stored without a caption
\* included, list_files (when get_me() returns) and expire_file show the list
\* with an entry for each file group up to the limit of the list; no file group
\* makes them fail.
C31_ListsComplete ==
    [][/\ (/\ files # EmptyDict
           /\ button_list_files(MAIN_ADMIN_ID, TRUE))
          => Complete("list_files", LIST_FILES_LIMIT)
       /\ (/\ files # EmptyDict
           /\ button_expire_file(MAIN_ADMIN_ID))
          => Complete("expire_file", EXPIRE_FILE_LIMIT)]_vars

\* ------------------------------------------------------------------------
\* Properties of the upload dialogue under failing calls
\* ------------------------------------------------------------------------

\* C32: storing the file group is all or nothing, also when get_me() or
\* reply_text() raises: after a deletion time of the range was taken, the file
\* group is in self.files if and only if context.user_data was cleared; never
\* is the file group stored while the session still waits for the deletion
\* time, where the same text sent again would store a second file group with
\* the same files.
C32_CommitAtomic ==
    [][\A text \in ValidTtlTexts, unique_code \in UploadCodes \ DOMAIN files,
          replied \in BOOLEAN :
          (/\ Session.awaiting = "delete_time"
           /\ text_delete_time(MAIN_ADMIN_ID, text, unique_code, replied))
          => /\ unique_code \in DOMAIN files' <=> Session' = EmptyUserData
             /\ ~(/\ unique_code \in DOMAIN files'
                  /\ Session'.awaiting = "delete_time")]_vars

\* ------------------------------------------------------------------------
\* Properties of the records of the rate limiter
\* ------------------------------------------------------------------------

\* The records of spam_control: request_count is at most SPAM_BURST, and
\* 'blocked_until' is set only in a record whose request_count is SPAM_BURST
RateStates ==
    \A user_id \in DOMAIN spam_control :
        /\ spam_control[user_id].request_count <= SPAM_BURST
        /\ spam_control[user_id].blocked_until # NoBlock
           => spam_control[user_id].request_count = SPAM_BURST

\* The 'blocked_until' of user 1 is set before the step and is not the same
\* after it
BlockChanges ==
    /\ 1 \in DOMAIN spam_control
    /\ spam_control[1].blocked_until # NoBlock
    /\ spam_control'[1].blocked_until # spam_control[1].blocked_until

\* C33: in every record of spam_control 'blocked_until' is set only when
\* request_count is SPAM_BURST (5), and request_count never exceeds it. A
\* 'blocked_until' that is not in the future is removed by the first call of
\* is_temp_blocked that sees it, which sets request_count to 0 as well; no other
\* step removes or changes a 'blocked_until' that is set.
C33_BlockExpiry ==
    /\ []RateStates
    /\ [][/\ (BlockExpired(1) /\ Attempt)
             => /\ reply'.calls[1] = "is_temp_blocked"
                /\ is_temp_blocked(spam_control, 1, now).sc[1]
                      = SpamInfo(0, spam_control[1].last_request, NoBlock)
                /\ spam_control'[1].blocked_until = NoBlock
          /\ BlockChanges
             => /\ BlockExpired(1)
                /\ Attempt
                /\ spam_control'[1].blocked_until = NoBlock]_vars

\* C33, its case: user 1, who is no administrator, was answered Blocked and the
\* block has expired since and is still recorded, with request_count at
\* SPAM_BURST: the next request of user 1 is the first that sees it in the past
C33_Witness ==
    /\ ~is_admin(1)
    /\ BlockExpired(1)
    /\ spam_control[1].request_count = SPAM_BURST
    /\ reply.user = 1
    /\ reply.outcome = "Blocked"

\* The last request of user 1 was answered RateLimited, and since the moment
\* check_spam recorded for it at least the seconds of its answer have passed
WaitedAsTold ==
    /\ reply.user = 1
    /\ reply.outcome = "RateLimited"
    /\ 1 \in DOMAIN spam_control
    /\ now >= spam_control[1].last_request + reply.wait * TicksPerSecond

\* C37: the wait a request is answered with is enough: when user 1, who is no
\* administrator, was answered RateLimited with wait_time w and makes the next
\* request w seconds later or more, check_spam lets that request through; it is
\* not answered RateLimited or Blocked and does not add to request_count.
C37_WaitSufficient ==
    [][(WaitedAsTold /\ Attempt)
          => /\ reply'.outcome \notin {"RateLimited", "Blocked"}
             /\ spam_control'[1].request_count = 1]_vars

\* ------------------------------------------------------------------------
\* Properties of the states of the upload dialogue
\* ------------------------------------------------------------------------

\* The state of the upload dialogue of the main administrator: 0 with no file
\* and nothing awaited, 1 while files are collected, 2 while the caption is
\* awaited, 3 while the deletion time is awaited
Stage(session) ==
    IF session.awaiting = "delete_time" THEN 3
    ELSE IF session.awaiting = "caption_for_files" THEN 2
    ELSE IF session.temp_files # <<>> THEN 1
    ELSE 0

\* C34: the upload dialogue only moves forward, from no session to collecting
\* files, to awaiting the caption, to awaiting the deletion time, to the stored
\* file group: a step that changes its state takes it to the next state, or
\* stores the file group from the last one, or is the cancel button pressed
\* while files are collected or the caption is awaited. While the deletion time
\* is awaited the caption stays as it is, and the cancel button changes nothing.
C34_ForwardOnly ==
    [][/\ Stage(Session') # Stage(Session)
          => \/ Stage(Session') = Stage(Session) + 1
             \/ /\ Stage(Session) = 3
                /\ Stage(Session') = 0
                /\ DOMAIN files' # DOMAIN files
             \/ /\ Stage(Session) \in {1, 2}
                /\ Stage(Session') = 0
                /\ button_cancel_upload(MAIN_ADMIN_ID)
       /\ (Stage(Session) = 3 /\ Stage(Session') = 3)
          => Session'.caption = Session.caption
       /\ (Stage(Session) = 3 /\ button_cancel_upload(MAIN_ADMIN_ID))
          => user_data' = user_data]_vars

\* ------------------------------------------------------------------------
\* Properties of the upload dialogue beside the other dialogues
\* ------------------------------------------------------------------------

\* button_callback, data = "back_menu": the cancel button of the menus
button_back_menu(user_id) ==
    /\ user_data' = [user_data EXCEPT ![user_id] = EmptyUserData]
    /\ UNCHANGED <<now, admins, users, files, mandatory_channels, spam_control,
                   user_channel_memberships, reply, probed, shown, notice,
                   published, discarded, tasks, user_message_map, outbox, sweeps>>

\* The buttons of the administrator keyboard and of the menus they open, and the
\* text that names the user to block
Menu(user_id) ==
    \/ button_broadcast(user_id)
    \/ button_send_to_user(user_id)
    \/ button_add_channel(user_id)
    \/ button_remove_channel(user_id)
    \/ button_block_user(user_id)
    \/ button_expire_file(user_id)
    \/ button_back_menu(user_id)
    \/ text_block_user_id(user_id, "5")

\* The upload dialogue of the main administrator with the buttons of the
\* keyboard pressed in between. The clock stands still.
NextSession ==
    \/ Store(MAIN_ADMIN_ID)
    \/ button_cancel_upload(MAIN_ADMIN_ID)
    \/ Menu(MAIN_ADMIN_ID)

SpecSession == Init /\ [][NextSession]_vars

\* C35: the upload session of an administrator ends only when its file group is
\* stored or the cancel button of the upload is pressed. A menu opened or left,
\* a broadcast started, a channel added or removed, a user blocked, a code
\* expired while the session has files leave its files, its caption and its
\* state as they are, so that a text sent while the deletion time is awaited is
\* taken as the deletion time.
C35_SessionSurvives ==
    [][/\ (Stage(Session) # 0 /\ Stage(Session') = 0)
          => \/ DOMAIN files' # DOMAIN files
             \/ button_cancel_upload(MAIN_ADMIN_ID)
       /\ (Stage(Session) # 0 /\ Menu(MAIN_ADMIN_ID))
          => /\ Session'.temp_files = Session.temp_files
             /\ Session'.caption = Session.caption
             /\ Session'.awaiting = Session.awaiting]_vars

\* ------------------------------------------------------------------------
\* Properties of the blocked users
\* ------------------------------------------------------------------------

\* The dialogue with which an administrator blocks user 1
Block(user_id) ==
    \/ Idle(user_id) /\ button_block_user(user_id)
    \/ text_block_user_id(user_id, "1")

\* Blocking: the main administrator stores a file group of photos and blocks
\* user 1, who is no administrator and asks for the files through the three
\* gated entry points, between the dialogues. The buttons pressed may be those
\* of messages of an earlier delivery or an earlier run of the bot. The clock
\* moves by the window of the rate limiter.
NextBlock ==
    \/ Photos(MAIN_ADMIN_ID)
    \/ Block(MAIN_ADMIN_ID)
    \/ Idle(MAIN_ADMIN_ID) /\ Start(1)
    \/ Idle(MAIN_ADMIN_ID) /\ Redownload(1)
    \/ Idle(MAIN_ADMIN_ID) /\ Check(1)
    \/ /\ Idle(MAIN_ADMIN_ID)
       /\ now + WindowTicks <= GateSeconds * TicksPerSecond
       /\ Tick(WindowTicks)

SpecBlock == Init /\ [][NextBlock]_vars

\* The user is recorded in self.users as blocked
Banned(user_id) == user_id \in DOMAIN users /\ users[user_id].is_blocked

\* C36: a user whose 'is_blocked' is set receives no file: /start with a code,
\* the redownload_ button and the check_ button each refuse a blocked user
\* before anything is sent; and 'is_blocked', once set, is never cleared.
C36_BlockedGetsNothing ==
    [][/\ (Banned(1) /\ Served)
          => /\ reply'.sent = 0
             /\ reply'.messages = <<>>
             /\ reply'.outcome # "Delivered"
       /\ \A user_id \in DOMAIN users :
             Banned(user_id)
             => /\ user_id \in DOMAIN users'
                /\ users'[user_id].is_blocked]_vars

\* ------------------------------------------------------------------------
\* Properties of the stored file groups
\* ------------------------------------------------------------------------

\* handle_media: the photo or video of an administrator goes to
\* handle_admin_media; that of another user who has not pressed contact_admin
\* is answered with a text
handle_media(user_id, file_type, telegram_file_id) ==
    /\ user_data[user_id].awaiting # "user_content_to_admin"
    /\ IF is_admin(user_id)
       THEN handle_admin_media(user_id, file_type, telegram_file_id)
       ELSE UNCHANGED vars

\* The upload dialogue as any user can try it: photos and videos, the buttons
\* of its messages, and texts for the deletion time on both sides of both ends
\* of the range
Contribute(user_id) ==
    \/ \E up \in Uploads : handle_media(user_id, up[1], up[2])
    \/ button_finish_files(user_id)
    \/ button_no_caption_files(user_id)
    \/ \E text \in {"5", "30", "4", "31"},
          unique_code \in UploadCodes \ DOMAIN files, replied \in BOOLEAN :
          text_delete_time(user_id, text, unique_code, replied)

\* The creators: the main administrator makes user 1 an administrator and takes
\* that away again while user 1 goes through the upload dialogue. The clock
\* stands still.
NextCreators ==
    \/ ConfigureAdmins(MAIN_ADMIN_ID)
    \/ Contribute(1)

SpecCreators == Init /\ [][NextCreators]_vars

\* Every stored file group has a file, only photos and videos, and a deletion
\* time of the range
WellFormed ==
    \A c \in DOMAIN files :
        /\ Len(files[c].files) >= 1
        /\ \A i \in DOMAIN files[c].files :
              files[c].files[i].file_type \in {"photo", "video"}
        /\ files[c].delete_seconds >= MIN_DELETE_SECONDS
        /\ files[c].delete_seconds <= MAX_DELETE_SECONDS

\* The step is one of the upload dialogue of user 1 taken while user 1 is an
\* administrator
ByAdministrator ==
    /\ 1 \in admins
    /\ Contribute(1)

\* C38: every file group of self.files has at least one file, only photos and
\* videos, a deletion time of 5..30, and was stored by a user who was an
\* administrator when it was stored; no step of a user who is no administrator
\* adds a file group or a file to self.files.
C38_BundlesWellFormed ==
    /\ []WellFormed
    /\ [][/\ \A c \in DOMAIN files' \ DOMAIN files :
                /\ files'[c].uploaded_by \in admins
                /\ ByAdministrator
          /\ files' # files => ByAdministrator]_vars

\* C38, its case: user 1 stored a file group while being an administrator, is
\* none any more, and has a session with a file that awaits the deletion time,
\* which has stored nothing
C38_Witness ==
    /\ 1 \notin admins
    /\ user_data[1].awaiting = "delete_time"
    /\ user_data[1].temp_files # <<>>
    /\ Cardinality(DOMAIN files) = 1
    /\ \A c \in DOMAIN files : files[c].uploaded_by = 1

\* ------------------------------------------------------------------------
\* Properties of the records of a removed channel
\* ------------------------------------------------------------------------

\* The dialogues that add a channel and remove one, each started when no other
\* dialogue is in progress
Channels(user_id) ==
    \/ Idle(user_id) /\ button_add_channel(user_id)
    \/ \E text \in ChannelTexts :
          \E is_bot_admin \in BotAdminOutcomes(text) :
              text_channel_link(user_id, text, is_bot_admin)
    \/ text_channel_button_text(user_id)
    \/ Idle(user_id) /\ button_remove_channel(user_id)
    \/ \E text \in {"1", "2"} : text_remove_channel_key(user_id, text)

\* The records: the main administrator adds and removes channels while user 1,
\* who is no administrator, presses the redownload_ button of a message of an
\* earlier run of the bot and the check_ button of the prompts, between the
\* dialogues. No file group exists. The clock moves by the window of the rate
\* limiter.
NextTrust ==
    \/ Channels(MAIN_ADMIN_ID)
    \/ Idle(MAIN_ADMIN_ID) /\ Redownload(1)
    \/ Idle(MAIN_ADMIN_ID) /\ Prompted(1) /\ Check(1)
    \/ /\ Idle(MAIN_ADMIN_ID)
       /\ now + WindowTicks <= GateSeconds * TicksPerSecond
       /\ Tick(WindowTicks)

SpecTrust == Init /\ [][NextTrust]_vars

\* Some outcome of the probes makes check_membership list the channel for user 1
Unmet(channel_key) ==
    \E pr \in ProbeInputs :
        channel_key \in KeysOf(check_membership(user_channel_memberships, 1,
                                                pr).not_joined)

\* The record of user 1 for the channel is satisfied and the channel is not in
\* self.mandatory_channels
Orphan(channel_key) ==
    /\ Satisfied(user_channel_memberships, 1, channel_key)
    /\ channel_key \notin KeysOf(mandatory_channels)

\* C39: removing a channel leaves the records of every user for it as they are.
\* When the channel is added again under the same identifier without
\* can_auto_verify, a user whose record was satisfied by the check_ button is
\* still satisfied: no evaluation lists the channel for them, with no new press
\* of the button.
C39_RemovalKeepsRecords ==
    [][/\ (\E text \in {"1", "2"} : text_remove_channel_key(MAIN_ADMIN_ID, text))
          => user_channel_memberships' = user_channel_memberships
       /\ \A k \in {extract_channel_info(text).key : text \in ChannelTexts} :
             (/\ Orphan(k)
              /\ text_channel_button_text(MAIN_ADMIN_ID)
              /\ k \in TrustKeys')
             => /\ Satisfied(user_channel_memberships', 1, k)
                /\ ~Unmet(k)'
       /\ \A k \in TrustKeys :
             (Satisfied(user_channel_memberships, 1, k) /\ Evaluation)
             => k \notin KeysOf(reply'.not_joined)]_vars

\* C39, its case: the channel user 1 has a satisfied record for was removed, and
\* the administrator is adding it again under the same identifier without
\* can_auto_verify; no probe ever reported user 1 a member of it
C39_Witness ==
    \E k \in {extract_channel_info(text).key : text \in ChannelTexts} :
        /\ Orphan(k)
        /\ <<1, k>> \notin probed
        /\ user_data[MAIN_ADMIN_ID].awaiting = "channel_button_text"
        /\ user_data[MAIN_ADMIN_ID].temp_channel_info.key = k
        /\ ~user_data[MAIN_ADMIN_ID].temp_channel_info.can_auto_verify

\* ------------------------------------------------------------------------
\* Properties of the cleanup tasks of an expired code
\* ------------------------------------------------------------------------

\* Deliveries, their cleanup and the expiry of the code: the main administrator
\* stores one group of photos and expires its code, user 1 asks for it with
\* /start and with the redownload_ button, the tasks created run, and the clock
\* moves by the deletion time. A created task starts before the next update is
\* handled and before time passes. The group is stored before the first
\* delivery, the first delivery is one of /start, the code is expired and the
\* redownload_ button is pressed after it; requests are made while another task
\* can be created or no file group is left to deliver.
NextRevoke ==
    \/ /\ tasks = <<>>
       /\ Photos(MAIN_ADMIN_ID)
    \/ /\ reply.scheduled = <<>>
       /\ tasks # <<>>
       /\ ExpireCode(MAIN_ADMIN_ID)
    \/ /\ Idle(MAIN_ADMIN_ID)
       /\ reply.scheduled = <<>>
       /\ Len(tasks) < MaxTasks
       /\ Start(1)
    \/ /\ Idle(MAIN_ADMIN_ID)
       /\ reply.scheduled = <<>>
       /\ tasks # <<>>
       /\ Len(tasks) < MaxTasks \/ files = EmptyDict
       /\ Redownload(1)
    \/ Cleanup
    \/ /\ reply.scheduled = <<>>
       /\ Tick(MIN_DELETE_SECONDS * TicksPerSecond)

SpecRevoke == Init /\ [][NextRevoke]_vars

\* The same under the scheduling of the event loop, which runs a task that can
\* take a step
SpecRevokeFair == SpecRevoke /\ WF_vars(Cleanup)

\* The step expires the code of a file group
Revokes ==
    /\ Session.awaiting = "expire_file_code"
    /\ "c1" \in DOMAIN files
    /\ text_expire_file_code(MAIN_ADMIN_ID, "c1", TRUE)

\* The message_ids a task was given
Own(task) == Range(task.args.message_ids)

\* No two tasks were given the same message of a chat
OwnMessagesApart ==
    \A k \in DOMAIN tasks, j \in DOMAIN tasks :
        (k # j /\ tasks[k].args.chat_id = tasks[j].args.chat_id)
        => Own(tasks[k]) \cap Own(tasks[j]) = {}

\* The step of a task is its next call, made when its deletion time has passed,
\* on a message of its own or with its own code, whatever self.files holds
OwnCallsOnly ==
    \A k \in DOMAIN tasks :
        tasks'[k] # tasks[k]
        => /\ tasks'[k].args = tasks[k].args
           /\ now >= tasks[k].due
           /\ Len(tasks'[k].calls) = Len(tasks[k].calls) + 1
           /\ CallsInOrder(tasks'[k])
           /\ \A i \in DOMAIN tasks'[k].calls :
                 tasks'[k].calls[i].op = "delete_message"
                 => tasks'[k].calls[i].message_id \in Own(tasks[k])

\* The redownload_ button pressed by user 1 for a code that is no key of
\* self.files sends nothing and creates no task
RevokedDeliversNothing ==
    (/\ reply'.kind = "redownload"
     /\ reply'.code \notin DOMAIN files
     /\ Quiet
     /\ Redownload(1))
    => /\ reply'.sent = 0
       /\ reply'.messages = <<>>
       /\ reply'.scheduled = <<>>
       /\ reply'.outcome # "Delivered"

\* C40: expiring a code leaves the cleanup tasks created for it as they are:
\* each of them, when the deletion time has passed, deletes the messages of its
\* own delivery and no others, also when several deliveries of the code to the
\* same user are waiting, and sends its message with the buttons; the
\* redownload_ button of that message, pressed for the expired code, delivers
\* nothing.
C40_RevokedCleanup ==
    /\ []OwnMessagesApart
    /\ [][/\ Revokes => tasks' = tasks
          /\ OwnCallsOnly
          /\ RevokedDeliversNothing]_vars
    /\ \A k \in 1..MaxTasks : Due(k) ~> Done(k)

\* C40, its case: two deliveries of the code to user 1 had their tasks
\* started, the code was expired, the first task has since made all its calls
\* and the second has not, and the redownload_ button was answered with the code
\* not found
C40_Witness ==
    /\ "c1" \notin DOMAIN files
    /\ Len(tasks) = 2
    /\ \A k \in DOMAIN tasks : tasks[k].args.file_code = "c1"
    /\ tasks[1].done
    /\ tasks[1].calls[Len(tasks[1].calls)].ok
    /\ ~tasks[2].done
    /\ reply.kind = "redownload"
    /\ reply.code = "c1"
    /\ reply.outcome = "CodeNotFound"

====
